---- MODULE Spec2Model ----
(***************************************************************************)
(* Model of the admin dashboard (AdminView) of alula-journey-navigator:    *)
(* the hosted store's tables, the component's React state, the async       *)
(* handlers (one action per synchronous segment between two awaits) and    *)
(* the realtime change feed.                                               *)
(*                                                                         *)
(* A handler that awaits the backend is split at each await: the segment   *)
(* that issues a request applies the request's effect on the store (a      *)
(* write) or takes the snapshot (a read) and leaves a task in `inflight`;  *)
(* the segment after the await consumes the task.  Values a handler reads  *)
(* from its render closure are carried in the task.                        *)
(***************************************************************************)
EXTENDS Integers, Sequences, FiniteSets, TLC

(* ------------------------------ bounds --------------------------------- *)

\* store writes the dashboard issues in one session
MaxWrites == 2
\* backend calls awaited at the same time
MaxInFlight == 2

(* --------------------------- program constants ------------------------- *)

\* 24 * 60 * 60 * 1000, the milliseconds of one day
DayMs == 86400000
\* 7 * 24 * 60 * 60 * 1000, the offset handleReassignGuide adds to Date.now()
WeekMs == 604800000

DefaultTourName == "AlUla Heritage Tour"
AdminId == "admin"
AdminPassword == "admin123"

(* ------------------------------ domains -------------------------------- *)

\* profiles rows with user_type = 'tourist', in full_name order
Profiles == << [id |-> "t1", full_name |-> "Aisha"],
               [id |-> "t2", full_name |-> "Omar"] >>

TouristIds == {Profiles[i].id : i \in 1..Len(Profiles)}

\* values typed into the text inputs
TourNames == {"Desert Tour"}
\* calendar days as ISO date strings, indexed by day number + 1
DayNames == << "1970-01-01", "1970-01-02", "1970-01-03", "1970-01-04",
               "1970-01-05", "1970-01-06", "1970-01-07", "1970-01-08",
               "1970-01-09", "1970-01-10" >>
FormDates == {DayNames[2]}
\* the clock (ms since the epoch) runs from the last millisecond of a day
\* into the first of the next
FirstInstant == DayMs - 1
LastInstant == DayMs

\* the guides table when the dashboard is opened
InitialGuides ==
    << [id |-> "g1", guide_id |-> "G001", password |-> "pw", name |-> "Ali",
        email |-> "ali@x", phone |-> "1", specializations |-> <<>>,
        status |-> "available", rating |-> 0],
       [id |-> "g2", guide_id |-> "G002", password |-> "pw", name |-> "Sara",
        email |-> "sara@x", phone |-> "2", specializations |-> <<>>,
        status |-> "available", rating |-> 0] >>

\* contents tour_assignments may have when the dashboard is opened (rows
\* written earlier, by this dashboard or by another client of the store)
InitialStores ==
    { <<>>,
      << [id |-> 1, tourist_id |-> "t1", guide_id |-> "g2",
          tour_name |-> "Desert Tour", start_date |-> DayNames[1],
          end_date |-> DayNames[2], status |-> "pending"] >>,
      << [id |-> 1, tourist_id |-> "t1", guide_id |-> "g2",
          tour_name |-> "Desert Tour", start_date |-> DayNames[1],
          end_date |-> DayNames[2], status |-> "completed"] >>,
      << [id |-> 1, tourist_id |-> "t1", guide_id |-> "g1",
          tour_name |-> "Desert Tour", start_date |-> DayNames[1],
          end_date |-> DayNames[2], status |-> "active"],
         [id |-> 2, tourist_id |-> "t1", guide_id |-> "g2",
          tour_name |-> "Desert Tour", start_date |-> DayNames[2],
          end_date |-> DayNames[3], status |-> "pending"] >> }

\* the contents among them in which no tourist has a pending or active row
StoresWithoutCurrentRow ==
    {s \in InitialStores :
        \A k \in 1..Len(s) : s[k].status \notin {"pending", "active"}}

\* the contents among them in which no tourist has two pending or active rows
StoresWithOneCurrentRow ==
    {s \in InitialStores :
        \A j, k \in 1..Len(s) :
            (/\ s[j].tourist_id = s[k].tourist_id
             /\ s[j].status \in {"pending", "active"}
             /\ s[k].status \in {"pending", "active"}) => j = k}

\* the guide_requests table when the dashboard is opened
InitialRequests ==
    << [id |-> "r1", tourist_id |-> "t1", request_message |-> "need a guide",
        status |-> "pending", assigned_guide_id |-> "", admin_response |-> ""] >>

\* the guide_requests table with a second, already answered request
AnsweredRequests ==
    InitialRequests \o
    << [id |-> "r2", tourist_id |-> "t2", request_message |-> "any guide",
        status |-> "approved", assigned_guide_id |-> "g2",
        admin_response |-> "Guide assigned successfully!"] >>

\* ids the store gives the rows of the guides table, in insertion order
GuideRowIds == <<"g1", "g2", "g3", "g4", "g5", "g6">>

\* values typed into the inputs of the guide form; the text of the
\* specializations input is held as its sequence of characters ('' is <<>>)
GuideNameInputs == {"", "Noor"}
GuideEmailInputs == {"", "noor@x"}
GuidePhoneInputs == {"", "3"}
GuideIdInputs == {"", "G003"}
GuidePasswordInputs == {"", "secret"}
SpecializationInputs == {<<>>, <<"a", ",", " ", "b", ",", " ">>}
GuideStatusInputs == {"available", "busy"}

\* the drivers table (written by the DriverRegistration component only)
DriversTable == << [id |-> "d1", name |-> "Hamad", status |-> "available"] >>

VARIABLES
    \* the hosted store
    dbAssignments,      \* tour_assignments rows, in insertion order
    dbGuides,           \* guides rows, in insertion order
    dbRequests,         \* guide_requests rows, in insertion order
    \* the AdminView component is mounted, and its React state
    mounted,
    isLoggedIn, adminId, password,
    tourists, guides, guideRequests, drivers, assignments,
    selectedTourist, selectedGuide, tourName, startDate, endDate,
    newGuideName, newGuideEmail, newGuidePhone, newGuideId, newGuidePassword,
    newGuideSpecializations, newGuideStatus, isCreatingGuide,
    reassignmentDialogOpen, reassignmentNewGuideId, reassignmentTouristId,
    editingGuide,       \* the id of the guide whose card is in edit mode, or ""
    editGuideData,      \* <<the draft>>, or <<>> for null
    \* React state of TouristPasswordLogin, and what it has sent out
    loginState,         \* the form's state record (lines 31-41)
    authRequests,       \* the requests sent to the auth provider, in order
    authResponses,      \* what the auth provider answered them with, in order
    profileUpserts,     \* the rows sent to profiles.upsert, in order
    loginSuccesses,     \* the user ids onLoginSuccess was called with, in order
    \* the last toast shown
    toast,
    \* asynchronous machinery
    inflight,           \* backend calls awaited, each with its continuation's closure
    pushEvents,         \* change events of the realtime channel not yet delivered
    profileEvents,      \* the same for the profiles table, each with its payload
    subscribed,         \* the 'admin-updates' channel is open
    timerPending,       \* the 1000 ms secondary-fetch timer is armed
    now,                \* the clock Date.now() reads
    writes              \* store writes issued so far

storeVars == <<dbAssignments, dbGuides, dbRequests>>
loginVars == <<mounted, isLoggedIn, adminId, password>>
collVars == <<tourists, guides, guideRequests, drivers>>
assignFormVars == <<selectedTourist, selectedGuide, tourName, startDate, endDate>>
guideFormVars == <<newGuideName, newGuideEmail, newGuidePhone, newGuideId,
                   newGuidePassword, newGuideSpecializations, newGuideStatus,
                   isCreatingGuide>>
reassignVars == <<reassignmentDialogOpen, reassignmentNewGuideId, reassignmentTouristId>>
asyncVars == <<inflight, pushEvents, subscribed, timerPending>>
editVars == <<editingGuide, editGuideData>>
touristVars == <<loginState, authRequests, authResponses, profileUpserts, loginSuccesses>>

vars == <<storeVars, loginVars, collVars, assignments, assignFormVars,
          guideFormVars, reassignVars, editVars, touristVars, toast, asyncVars,
          profileEvents, now, writes>>

(* ------------------------------ helpers -------------------------------- *)

Reverse(s) == [i \in 1..Len(s) |-> s[Len(s) + 1 - i]]

\* every ordering of the elements of a sequence
Orderings(s) ==
    LET n == Len(s)
        bij == {f \in [1..n -> 1..n] : \A i, j \in 1..n : i # j => f[i] # f[j]}
    IN {[i \in 1..n |-> s[f[i]]] : f \in bij}

NoToast == [title |-> "", description |-> "", variant |-> "default"]
ErrorToast(d) == [title |-> "Error", description |-> d, variant |-> "destructive"]
InfoToast(t, d) == [title |-> t, description |-> d, variant |-> "default"]

\* the message of an error returned by the store
StoreErrorMessage == "store error"

\* TouristPasswordLogin.tsx lines 31-41: the form as constructed (showPassword
\* and activeTab, which only drive the rendering, are left out; activeTab
\* always equals method, line 47-48)
InitialLoginState ==
    [identifier |-> <<>>, password |-> <<>>, confirmPassword |-> <<>>,
     fullName |-> <<>>, phoneNumber |-> <<>>, method |-> "email",
     isSignUp |-> FALSE, loading |-> FALSE]

\* the tourist login form untouched
TouristFormUntouched ==
    /\ loginState = InitialLoginState
    /\ authRequests = <<>> /\ authResponses = <<>>
    /\ profileUpserts = <<>> /\ loginSuccesses = <<>>

(* ------------------------------- Init ---------------------------------- *)

\* the useState initial values (lines 86-127) over a store opened in any of
\* the contents above
AdminViewConstructed ==
    /\ dbAssignments \in InitialStores
    /\ dbGuides = InitialGuides
    /\ dbRequests = InitialRequests
    /\ mounted = TRUE
    /\ isLoggedIn = FALSE /\ adminId = "" /\ password = ""
    /\ tourists = <<>> /\ guides = <<>> /\ guideRequests = <<>> /\ drivers = <<>>
    /\ assignments = <<>>
    /\ selectedTourist = "" /\ selectedGuide = "" /\ tourName = ""
    /\ startDate = "" /\ endDate = ""
    /\ newGuideName = "" /\ newGuideEmail = "" /\ newGuidePhone = ""
    /\ newGuideId = "" /\ newGuidePassword = "" /\ newGuideSpecializations = <<>>
    /\ newGuideStatus = "available" /\ isCreatingGuide = FALSE
    /\ reassignmentDialogOpen = FALSE /\ reassignmentNewGuideId = ""
    /\ reassignmentTouristId = ""
    /\ editingGuide = "" /\ editGuideData = <<>>
    /\ toast = NoToast
    /\ inflight = {} /\ pushEvents = {} /\ subscribed = FALSE
    /\ profileEvents = {}
    /\ timerPending = FALSE
    /\ now = FirstInstant
    /\ writes = 0

Init == AdminViewConstructed /\ TouristFormUntouched

(* --------------------------- store queries ----------------------------- *)

\* the guides row a guide_id references, as the embedded resource of a join:
\* <<row>>, or <<>> (null) when no guide has that id
GuideJoin(gid) == SelectSeq(dbGuides, LAMBDA g : g.id = gid)

\* the profiles row of a tourist, as an embedded resource
ProfileJoin(tid) == SelectSeq(Profiles, LAMBDA q : q.id = tid)

\* from('tour_assignments').select(...).order('created_at', desc)
SelectAssignments == Reverse(dbAssignments)

\* from('tour_assignments').select('tourist_id, status, guide_id, guides(name)')
\*   .in('status', ['pending', 'active']): the query states no order, so the
\* store may return the matching rows in any order
SelectCurrentAssignments ==
    LET hit == SelectSeq(dbAssignments, LAMBDA r : r.status \in {"pending", "active"})
        row(r) == [tourist_id |-> r.tourist_id, status |-> r.status,
                   guide_id |-> r.guide_id, guides |-> GuideJoin(r.guide_id)]
    IN Orderings([i \in 1..Len(hit) |-> row(hit[i])])

\* from('guides').select('*').order('created_at', desc)
SelectGuides == Reverse(dbGuides)

\* from('guide_requests').select('*, profiles(...), guides(...)').order('created_at', desc)
SelectGuideRequests ==
    LET row(r) == [id |-> r.id, tourist_id |-> r.tourist_id,
                   request_message |-> r.request_message, status |-> r.status,
                   assigned_guide_id |-> r.assigned_guide_id,
                   admin_response |-> r.admin_response,
                   profiles |-> ProfileJoin(r.tourist_id),
                   guides |-> GuideJoin(r.assigned_guide_id)]
    IN Reverse([i \in 1..Len(dbRequests) |-> row(dbRequests[i])])

\* from('drivers').select('*').order('created_at', desc)
SelectDrivers == Reverse(DriversTable)

(* ------------------------- fetchers: pure parts ------------------------ *)

\* lines 255-264: rows of tour_assignments to the local Assignment shape
FormatAssignments(data) ==
    [i \in 1..Len(data) |->
        [id |-> data[i].id, touristId |-> data[i].tourist_id,
         guideId |-> data[i].guide_id, tourName |-> data[i].tour_name,
         startDate |-> data[i].start_date, endDate |-> data[i].end_date,
         status |-> data[i].status]]

\* assignment.guides?.name || 'Unknown Guide'
GuideNameOrUnknown(join) ==
    IF join # <<>> /\ join[1].name # "" THEN join[1].name ELSE "Unknown Guide"

RECURSIVE AssignmentMapFirstWins(_)
\* the reduce, were an earlier row of a tourist kept instead of overwritten
AssignmentMapFirstWins(rows) ==
    IF rows = <<>> THEN <<>>
    ELSE LET n == Len(rows)
             acc == AssignmentMapFirstWins(SubSeq(rows, 1, n - 1))
             entry == [status |-> rows[n].status,
                       assignedGuide |-> GuideNameOrUnknown(rows[n].guides)]
         IN [t \in (DOMAIN acc) \cup {rows[n].tourist_id} |->
                IF t \in DOMAIN acc THEN acc[t] ELSE entry]

RECURSIVE AssignmentMap(_)
\* lines 189-195: the reduce that keys the rows by tourist_id; a later row
\* of the same tourist overwrites an earlier one
AssignmentMap(rows) ==
    IF rows = <<>> THEN <<>>
    ELSE LET n == Len(rows)
             acc == AssignmentMap(SubSeq(rows, 1, n - 1))
             entry == [status |-> rows[n].status,
                       assignedGuide |-> GuideNameOrUnknown(rows[n].guides)]
         IN [t \in (DOMAIN acc) \cup {rows[n].tourist_id} |->
                IF t = rows[n].tourist_id THEN entry ELSE acc[t]]

\* the derivation, were the 'pending' arm forgotten
DerivedStatusNoPending(map, tid) ==
    IF tid \in DOMAIN map /\ map[tid].status = "active" THEN "assigned" ELSE "active"

\* lines 199-202
DerivedStatus(map, tid) ==
    IF tid \in DOMAIN map /\ map[tid].status = "active" THEN "assigned"
    ELSE IF tid \in DOMAIN map /\ map[tid].status = "pending" THEN "pending"
    ELSE "active"

\* line 211: assignmentMap[profile.id]?.assignedGuide || ''
DerivedGuide(map, tid) == IF tid \in DOMAIN map THEN map[tid].assignedGuide ELSE ""

\* lines 198-215
FormatTourists(profiles, rows) ==
    LET map == AssignmentMap(rows)
    IN [i \in 1..Len(profiles) |->
           [id |-> profiles[i].id,
            name |-> IF profiles[i].full_name # "" THEN profiles[i].full_name
                     ELSE "Unnamed Tourist",
            status |-> DerivedStatus(map, profiles[i].id),
            assignedGuide |-> DerivedGuide(map, profiles[i].id)]]

(* ------------------------ fetchers: the requests ----------------------- *)

\* each fetcher's first segment: the read is issued and the store answers
\* with its contents at that moment
FetchTouristsCall == [kind |-> "fetchTourists.profiles", data |-> Profiles]
FetchAssignmentsCall == [kind |-> "fetchAssignments", data |-> SelectAssignments]
FetchGuidesCall == [kind |-> "fetchGuides", data |-> SelectGuides]
FetchGuideRequestsCall == [kind |-> "fetchGuideRequests", data |-> SelectGuideRequests]
FetchDriversCall == [kind |-> "fetchDrivers", data |-> SelectDrivers]

CanStart == Cardinality(inflight) < MaxInFlight

\* a handler may issue one more store write
CanWrite == CanStart /\ writes < MaxWrites

(* -------------------- fetchers: the continuations ---------------------- *)

\* lines 168-180: the profiles read returned; an error is thrown to the
\* catch (lines 227-234), else the assignments read is issued
FetchTouristsProfiles(c, err) ==
    /\ c \in inflight /\ c.kind = "fetchTourists.profiles"
    /\ IF err
       THEN /\ toast' = ErrorToast("Failed to load tourists. Please try again.")
            /\ inflight' = inflight \ {c}
       ELSE /\ \E rows \in SelectCurrentAssignments :
                 inflight' = (inflight \ {c}) \cup
                     {[kind |-> "fetchTourists.assignments",
                       profiles |-> c.data, data |-> rows]}
            /\ toast' = toast
    /\ UNCHANGED <<profileEvents, editVars, touristVars, now, writes, storeVars, loginVars, collVars, assignments, assignFormVars,
                   guideFormVars, reassignVars, pushEvents, subscribed, timerPending>>

\* lines 182-220: the assignments read returned; its error is only logged
\* and the rows are then taken as empty
FetchTouristsAssignments(c, err) ==
    /\ c \in inflight /\ c.kind = "fetchTourists.assignments"
    /\ tourists' = FormatTourists(c.profiles, IF err THEN <<>> ELSE c.data)
    /\ inflight' = inflight \ {c}
    /\ UNCHANGED <<profileEvents, editVars, touristVars, now, writes, storeVars, loginVars, guides, guideRequests, drivers, assignments,
                   assignFormVars, guideFormVars, reassignVars, toast, pushEvents,
                   subscribed, timerPending>>

\* fetchAssignments, were setAssignments(data || []) run before the error test
FetchAssignmentsDoneClears(c, err) ==
    /\ c \in inflight /\ c.kind = "fetchAssignments"
    /\ inflight' = inflight \ {c}
    /\ IF err
       THEN /\ toast' = ErrorToast("Failed to fetch assignments")
            /\ assignments' = <<>>
       ELSE /\ assignments' = FormatAssignments(c.data)
            /\ toast' = toast
    /\ UNCHANGED <<profileEvents, editVars, touristVars, now, writes, storeVars, loginVars, collVars, assignFormVars, guideFormVars,
                   reassignVars, pushEvents, subscribed, timerPending>>

\* a fetchAssignments that fills an empty list only
FetchAssignmentsDoneKeepsLocal(c, err) ==
    /\ c \in inflight /\ c.kind = "fetchAssignments"
    /\ inflight' = inflight \ {c}
    /\ IF err
       THEN /\ toast' = ErrorToast("Failed to fetch assignments")
            /\ assignments' = assignments
       ELSE /\ assignments' = IF assignments = <<>>
                               THEN FormatAssignments(c.data) ELSE assignments
            /\ toast' = toast
    /\ UNCHANGED <<profileEvents, editVars, touristVars, now, writes, storeVars, loginVars, collVars, assignFormVars,
                   guideFormVars, reassignVars, pushEvents, subscribed,
                   timerPending>>

\* lines 253-274
FetchAssignmentsDone(c, err) ==
    /\ c \in inflight /\ c.kind = "fetchAssignments"
    /\ inflight' = inflight \ {c}
    /\ IF err
       THEN /\ toast' = ErrorToast("Failed to fetch assignments")
            /\ assignments' = assignments
       ELSE /\ assignments' = FormatAssignments(c.data)
            /\ toast' = toast
    /\ UNCHANGED <<profileEvents, editVars, touristVars, now, writes, storeVars, loginVars, collVars, assignFormVars, guideFormVars,
                   reassignVars, pushEvents, subscribed, timerPending>>

\* lines 347-359
FetchGuidesDone(c, err) ==
    /\ c \in inflight /\ c.kind = "fetchGuides"
    /\ inflight' = inflight \ {c}
    /\ IF err
       THEN /\ toast' = ErrorToast("Failed to fetch guides")
            /\ guides' = guides
       ELSE /\ guides' = c.data
            /\ toast' = toast
    /\ UNCHANGED <<profileEvents, editVars, touristVars, now, writes, storeVars, loginVars, tourists, guideRequests, drivers, assignments,
                   assignFormVars, guideFormVars, reassignVars, pushEvents,
                   subscribed, timerPending>>

\* lines 382-394
FetchGuideRequestsDone(c, err) ==
    /\ c \in inflight /\ c.kind = "fetchGuideRequests"
    /\ inflight' = inflight \ {c}
    /\ IF err
       THEN /\ toast' = ErrorToast("Failed to fetch guide requests")
            /\ guideRequests' = guideRequests
       ELSE /\ guideRequests' = c.data
            /\ toast' = toast
    /\ UNCHANGED <<profileEvents, editVars, touristVars, now, writes, storeVars, loginVars, tourists, guides, drivers, assignments,
                   assignFormVars, guideFormVars, reassignVars, pushEvents,
                   subscribed, timerPending>>

\* lines 404-413
FetchDriversDone(c, err) ==
    /\ c \in inflight /\ c.kind = "fetchDrivers"
    /\ inflight' = inflight \ {c}
    /\ IF err
       THEN /\ toast' = ErrorToast("Failed to fetch drivers")
            /\ drivers' = drivers
       ELSE /\ drivers' = c.data
            /\ toast' = toast
    /\ UNCHANGED <<profileEvents, editVars, touristVars, now, writes, storeVars, loginVars, tourists, guides, guideRequests, assignments,
                   assignFormVars, guideFormVars, reassignVars, pushEvents,
                   subscribed, timerPending>>

(* ------------------------------ the clock ------------------------------ *)

Tick ==
    /\ now < LastInstant
    /\ now' = now + 1
    /\ UNCHANGED <<profileEvents, editVars, touristVars, storeVars, loginVars, collVars, assignments, assignFormVars,
                   guideFormVars, reassignVars, toast, asyncVars, writes>>

(* --------------------------- login (416-430) --------------------------- *)

AdminIdInputs == {"", AdminId, "guest"}
PasswordInputs == {"", AdminPassword, "wrong"}

\* the login form is rendered only while isLoggedIn is false (line 802)
SetAdminId(v) ==
    /\ mounted /\ ~isLoggedIn /\ adminId' = v
    /\ UNCHANGED <<profileEvents, editVars, touristVars, now, writes, storeVars, mounted, isLoggedIn, password, collVars, assignments,
                   assignFormVars, guideFormVars, reassignVars, toast, asyncVars>>

SetPassword(v) ==
    /\ mounted /\ ~isLoggedIn /\ password' = v
    /\ UNCHANGED <<profileEvents, editVars, touristVars, now, writes, storeVars, mounted, isLoggedIn, adminId, collVars, assignments,
                   assignFormVars, guideFormVars, reassignVars, toast, asyncVars>>

\* a check of the id alone
CredentialsAcceptedByIdOnly == adminId = AdminId

\* line 417: the condition of handleLogin
CredentialsAccepted == adminId = AdminId /\ password = AdminPassword

\* handleLogin, and on success the effect of lines 130-146 that the change
\* of isLoggedIn runs: five fetches, the channel and the 1000 ms timer
HandleLogin ==
    /\ mounted /\ ~isLoggedIn
    /\ IF CredentialsAccepted
       THEN /\ isLoggedIn' = TRUE
            /\ toast' = InfoToast("Login Successful", "Welcome to the Admin Dashboard!")
            /\ inflight' = inflight \cup {FetchGuidesCall, FetchGuideRequestsCall,
                                          FetchAssignmentsCall, FetchDriversCall,
                                          FetchTouristsCall}
            /\ subscribed' = TRUE
            /\ timerPending' = TRUE
       ELSE /\ toast' = [title |-> "Login Failed",
                         description |-> "Invalid credentials. Try admin/admin123",
                         variant |-> "destructive"]
            /\ UNCHANGED <<isLoggedIn, inflight, subscribed, timerPending>>
    /\ UNCHANGED <<profileEvents, editVars, touristVars, now, writes, storeVars, mounted, adminId, password, collVars,
                   assignments, assignFormVars, guideFormVars, reassignVars,
                   pushEvents>>

\* lines 141-144: the secondary fetch
TimerFire ==
    /\ timerPending
    /\ timerPending' = FALSE
    /\ inflight' = inflight \cup {FetchTouristsCall}
    /\ UNCHANGED <<profileEvents, editVars, touristVars, now, writes, storeVars, loginVars, collVars, assignments, assignFormVars,
                   guideFormVars, reassignVars, toast, pushEvents, subscribed>>

\* React unmounts AdminView.  The effect of lines 130-146 returns no cleanup
\* (the function setupRealtimeUpdates returns, lines 334-336, is dropped at
\* line 138, and the timer's handle at line 141), and the component has no
\* other effect and no logout: nothing runs.  The state variables keep
\* their last values here; React ignores what is set after this step.
Unmount ==
    /\ mounted
    /\ mounted' = FALSE
    /\ UNCHANGED <<profileEvents, editVars, touristVars, now, writes, storeVars, isLoggedIn, adminId, password, collVars,
                   assignments, assignFormVars, guideFormVars, reassignVars, toast,
                   asyncVars>>

(* --------------------- realtime channel (277-338) ---------------------- *)

\* the store publishes a change of `table` to the channel, if it is open
Publish(table) == IF subscribed THEN pushEvents \cup {table} ELSE pushEvents

\* the fetchers the channel's callback for `table` runs
PushFetches(table) ==
    CASE table = "guide_requests" -> {FetchGuideRequestsCall, FetchTouristsCall}
      [] table = "tour_assignments" -> {FetchTouristsCall, FetchAssignmentsCall}
      [] table = "guides" -> {FetchGuidesCall}

PushDeliver(table) ==
    /\ table \in pushEvents
    /\ CanStart
    /\ pushEvents' = pushEvents \ {table}
    /\ inflight' = inflight \cup PushFetches(table)
    /\ UNCHANGED <<profileEvents, editVars, touristVars, now, writes, storeVars, loginVars, collVars, assignments, assignFormVars,
                   guideFormVars, reassignVars, toast, subscribed, timerPending>>

\* the user_type a profiles event carries in payload.new and in payload.old:
\* a tourist's row, another user's row, or no user_type (the side is empty,
\* or the store sent the key columns only)
PayloadTypes == {"tourist", "guide", "none"}

\* another client inserts, updates or deletes a profiles row and the store
\* publishes the event (one event at a time; the rows the dashboard reads
\* are kept as they are)
RemoteProfileChange(new, old) ==
    /\ subscribed /\ profileEvents = {} /\ pushEvents = {} /\ CanStart
    /\ profileEvents' = {[new |-> new, old |-> old]}
    /\ UNCHANGED <<editVars, touristVars, now, writes, storeVars, loginVars, collVars,
                   assignments, assignFormVars, guideFormVars, reassignVars, toast,
                   asyncVars>>

\* a callback that looks at payload.new only
ProfilesPushFetchesNewOnly(e) ==
    IF e.new = "tourist"
    THEN {FetchTouristsCall, FetchGuideRequestsCall}
    ELSE {FetchGuideRequestsCall}

\* lines 300-306: the fetchers the callback of the profiles table runs
ProfilesPushFetches(e) ==
    IF e.new = "tourist" \/ e.old = "tourist"
    THEN {FetchTouristsCall, FetchGuideRequestsCall}
    ELSE {FetchGuideRequestsCall}

\* lines 293-307: a profiles event is delivered
ProfilesPushDeliver(e) ==
    /\ e \in profileEvents
    /\ CanStart
    /\ profileEvents' = profileEvents \ {e}
    /\ inflight' = inflight \cup ProfilesPushFetches(e)
    /\ UNCHANGED <<editVars, touristVars, now, writes, storeVars, loginVars, collVars,
                   assignments, assignFormVars, guideFormVars, reassignVars, toast,
                   pushEvents, subscribed, timerPending>>

(* ------------------------ shared list operations ----------------------- *)

\* the ids the pickers offer: guides.filter(g => g.status === 'available')
AvailableGuideIds ==
    {guides[i].id : i \in {j \in 1..Len(guides) : guides[j].status = "available"}}

LocalTouristIds == {tourists[i].id : i \in 1..Len(tourists)}

\* a lookup that passes completed entries over
FindCurrentAssignment(list, tid) ==
    LET hits == SelectSeq(list, LAMBDA a : a.touristId = tid /\ a.status # "completed")
    IN IF hits = <<>> THEN <<>> ELSE <<hits[1]>>

\* assignments.find(a => a.touristId === tid): <<first match>>, or <<>>
FindAssignment(list, tid) ==
    LET hits == SelectSeq(list, LAMBDA a : a.touristId = tid)
    IN IF hits = <<>> THEN <<>> ELSE <<hits[1]>>

\* date.toISOString().split('T')[0] of an instant given in ms since the epoch
ISODate(ms) == DayNames[(ms \div DayMs) + 1]

\* the row an insert into tour_assignments stores and returns
NewRow(tid, gid, name, start, end) ==
    [id |-> Len(dbAssignments) + 1, tourist_id |-> tid, guide_id |-> gid,
     tour_name |-> name, start_date |-> start, end_date |-> end, status |-> "active"]

(* ------------------- assignment form (432-508, 924-1010) --------------- *)

SetSelectedTourist(t) ==
    /\ isLoggedIn /\ t \in LocalTouristIds
    /\ selectedTourist' = t
    /\ UNCHANGED <<profileEvents, editVars, touristVars, now, writes, storeVars, loginVars, collVars, assignments, selectedGuide,
                   tourName, startDate, endDate, guideFormVars, reassignVars,
                   toast, asyncVars>>

SetSelectedGuide(g) ==
    /\ isLoggedIn /\ g \in AvailableGuideIds
    /\ selectedGuide' = g
    /\ UNCHANGED <<profileEvents, editVars, touristVars, now, writes, storeVars, loginVars, collVars, assignments, selectedTourist,
                   tourName, startDate, endDate, guideFormVars, reassignVars,
                   toast, asyncVars>>

SetTourName(v) ==
    /\ isLoggedIn /\ tourName' = v
    /\ UNCHANGED <<profileEvents, editVars, touristVars, now, writes, storeVars, loginVars, collVars, assignments, selectedTourist,
                   selectedGuide, startDate, endDate, guideFormVars, reassignVars,
                   toast, asyncVars>>

SetStartDate(v) ==
    /\ isLoggedIn /\ startDate' = v
    /\ UNCHANGED <<profileEvents, editVars, touristVars, now, writes, storeVars, loginVars, collVars, assignments, selectedTourist,
                   selectedGuide, tourName, endDate, guideFormVars, reassignVars,
                   toast, asyncVars>>

SetEndDate(v) ==
    /\ isLoggedIn /\ endDate' = v
    /\ UNCHANGED <<profileEvents, editVars, touristVars, now, writes, storeVars, loginVars, collVars, assignments, selectedTourist,
                   selectedGuide, tourName, startDate, guideFormVars, reassignVars,
                   toast, asyncVars>>

\* line 433
AssignFormIncomplete ==
    selectedTourist = "" \/ selectedGuide = "" \/ tourName = ""
        \/ startDate = "" \/ endDate = ""

\* lines 433-440: handleAssignGuide on an incomplete form
HandleAssignGuideInvalid ==
    /\ isLoggedIn /\ AssignFormIncomplete
    /\ toast' = ErrorToast("Please fill in all fields")
    /\ UNCHANGED <<profileEvents, editVars, touristVars, now, writes, storeVars, loginVars, collVars, assignments, assignFormVars,
                   guideFormVars, reassignVars, asyncVars>>

\* lines 442-455: handleAssignGuide issues the insert; the store accepts it
\* (ok) or returns an error
HandleAssignGuide(ok) ==
    /\ isLoggedIn /\ ~AssignFormIncomplete
    /\ CanWrite
    /\ writes' = writes + 1
    /\ LET row == NewRow(selectedTourist, selectedGuide, tourName, startDate, endDate)
           call == [kind |-> "assign.insert", ok |-> ok,
                    data |-> IF ok THEN <<row>> ELSE <<>>,
                    selectedTourist |-> selectedTourist,
                    selectedGuide |-> selectedGuide, tourName |-> tourName,
                    startDate |-> startDate, endDate |-> endDate]
       IN /\ inflight' = inflight \cup {call}
          /\ IF ok
             THEN /\ dbAssignments' = Append(dbAssignments, row)
                  /\ pushEvents' = Publish("tour_assignments")
             ELSE UNCHANGED <<dbAssignments, pushEvents>>
    /\ UNCHANGED <<profileEvents, editVars, touristVars, now, dbGuides, dbRequests, loginVars, collVars, assignments,
                   assignFormVars, guideFormVars, reassignVars, toast, subscribed,
                   timerPending>>

\* lines 457-469 and 500-507: the insert returned; its error is thrown to
\* the outer catch, else the notification function is invoked
AssignInsertReturned(c) ==
    /\ c \in inflight /\ c.kind = "assign.insert"
    /\ IF c.ok
       THEN /\ inflight' = (inflight \ {c}) \cup
                    {[kind |-> "assign.notify", data |-> c.data,
                      selectedTourist |-> c.selectedTourist,
                      selectedGuide |-> c.selectedGuide, tourName |-> c.tourName,
                      startDate |-> c.startDate, endDate |-> c.endDate]}
            /\ toast' = toast
       ELSE /\ inflight' = inflight \ {c}
            /\ toast' = ErrorToast(StoreErrorMessage)
    /\ UNCHANGED <<profileEvents, editVars, touristVars, now, writes, storeVars, loginVars, collVars, assignments, assignFormVars,
                   guideFormVars, reassignVars, pushEvents, subscribed, timerPending>>

\* a notification failure that is surfaced and ends the handler
AssignFinishUnlessThrew(c, threw) ==
    IF threw
    THEN /\ toast' = ErrorToast("Failed to create assignment")
         /\ UNCHANGED <<assignments, assignFormVars>>
    ELSE /\ assignments' = Append(assignments,
                [id |-> c.data[1].id, touristId |-> c.selectedTourist,
                 guideId |-> c.selectedGuide, tourName |-> c.tourName,
                 startDate |-> c.startDate, endDate |-> c.endDate, status |-> "active"])
         /\ selectedTourist' = "" /\ selectedGuide' = "" /\ tourName' = ""
         /\ startDate' = "" /\ endDate' = ""
         /\ toast' = InfoToast("Assignment Created",
                               "Tour guide assigned successfully and notifications sent!")

\* what lines 470-499 do once the notification call has settled
AssignFinish(c, threw) ==
    /\ assignments' = Append(assignments,
           [id |-> c.data[1].id, touristId |-> c.selectedTourist,
            guideId |-> c.selectedGuide, tourName |-> c.tourName,
            startDate |-> c.startDate, endDate |-> c.endDate, status |-> "active"])
    /\ selectedTourist' = "" /\ selectedGuide' = "" /\ tourName' = ""
    /\ startDate' = "" /\ endDate' = ""
    /\ toast' = InfoToast("Assignment Created",
                          "Tour guide assigned successfully and notifications sent!")

\* lines 460-499: the notification call resolved, or threw into the inner
\* catch, which only logs
AssignNotifyReturned(c, threw) ==
    /\ c \in inflight /\ c.kind = "assign.notify"
    /\ inflight' = inflight \ {c}
    /\ AssignFinish(c, threw)
    /\ UNCHANGED <<profileEvents, editVars, touristVars, now, writes, storeVars, loginVars, collVars, guideFormVars, reassignVars,
                   pushEvents, subscribed, timerPending>>

(* ------------------ guide form (518-579, 1115-1173) -------------------- *)

\* s.split(','): the pieces between the commas of a text
RECURSIVE SplitComma(_)
SplitComma(s) ==
    LET commas == {i \in 1..Len(s) : s[i] = ","}
    IN IF commas = {}
       THEN <<s>>
       ELSE LET k == CHOOSE i \in commas : \A j \in commas : i <= j
            IN <<SubSeq(s, 1, k - 1)>> \o SplitComma(SubSeq(s, k + 1, Len(s)))

\* s.trim(): the text without its leading and trailing white space
Trim(s) ==
    LET ink == {i \in 1..Len(s) : s[i] # " "}
    IN IF ink = {}
       THEN <<>>
       ELSE SubSeq(s, CHOOSE i \in ink : \A j \in ink : i <= j,
                      CHOOSE i \in ink : \A j \in ink : j <= i)

\* the pieces trimmed but the empty ones kept
SpecializationsWithEmpty(text) ==
    IF text = <<>>
    THEN <<>>
    ELSE LET pieces == SplitComma(text)
         IN [i \in 1..Len(pieces) |-> Trim(pieces[i])]

\* lines 531-533
Specializations(text) ==
    IF text = <<>>
    THEN <<>>
    ELSE LET pieces == SplitComma(text)
         IN SelectSeq([i \in 1..Len(pieces) |-> Trim(pieces[i])],
                      LAMBDA piece : piece # <<>>)

\* lines 1122-1161: the inputs of the form
SetNewGuideName(v) ==
    /\ isLoggedIn /\ newGuideName' = v
    /\ UNCHANGED <<profileEvents, editVars, touristVars, now, writes, storeVars, loginVars, collVars, assignments,
                   assignFormVars, newGuideEmail, newGuidePhone, newGuideId,
                   newGuidePassword, newGuideSpecializations, newGuideStatus,
                   isCreatingGuide, reassignVars, toast, asyncVars>>

SetNewGuideEmail(v) ==
    /\ isLoggedIn /\ newGuideEmail' = v
    /\ UNCHANGED <<profileEvents, editVars, touristVars, now, writes, storeVars, loginVars, collVars, assignments,
                   assignFormVars, newGuideName, newGuidePhone, newGuideId,
                   newGuidePassword, newGuideSpecializations, newGuideStatus,
                   isCreatingGuide, reassignVars, toast, asyncVars>>

SetNewGuidePhone(v) ==
    /\ isLoggedIn /\ newGuidePhone' = v
    /\ UNCHANGED <<profileEvents, editVars, touristVars, now, writes, storeVars, loginVars, collVars, assignments,
                   assignFormVars, newGuideName, newGuideEmail, newGuideId,
                   newGuidePassword, newGuideSpecializations, newGuideStatus,
                   isCreatingGuide, reassignVars, toast, asyncVars>>

SetNewGuideId(v) ==
    /\ isLoggedIn /\ newGuideId' = v
    /\ UNCHANGED <<profileEvents, editVars, touristVars, now, writes, storeVars, loginVars, collVars, assignments,
                   assignFormVars, newGuideName, newGuideEmail, newGuidePhone,
                   newGuidePassword, newGuideSpecializations, newGuideStatus,
                   isCreatingGuide, reassignVars, toast, asyncVars>>

SetNewGuidePassword(v) ==
    /\ isLoggedIn /\ newGuidePassword' = v
    /\ UNCHANGED <<profileEvents, editVars, touristVars, now, writes, storeVars, loginVars, collVars, assignments,
                   assignFormVars, newGuideName, newGuideEmail, newGuidePhone,
                   newGuideId, newGuideSpecializations, newGuideStatus,
                   isCreatingGuide, reassignVars, toast, asyncVars>>

SetNewGuideSpecializations(v) ==
    /\ isLoggedIn /\ newGuideSpecializations' = v
    /\ UNCHANGED <<profileEvents, editVars, touristVars, now, writes, storeVars, loginVars, collVars, assignments,
                   assignFormVars, newGuideName, newGuideEmail, newGuidePhone,
                   newGuideId, newGuidePassword, newGuideStatus,
                   isCreatingGuide, reassignVars, toast, asyncVars>>

SetNewGuideStatus(v) ==
    /\ isLoggedIn /\ newGuideStatus' = v
    /\ UNCHANGED <<profileEvents, editVars, touristVars, now, writes, storeVars, loginVars, collVars, assignments,
                   assignFormVars, newGuideName, newGuideEmail, newGuidePhone,
                   newGuideId, newGuidePassword, newGuideSpecializations,
                   isCreatingGuide, reassignVars, toast, asyncVars>>

\* a check that lets a form without a password through
GuideFormIncompleteButPassword ==
    newGuideName = "" \/ newGuideEmail = "" \/ newGuidePhone = "" \/ newGuideId = ""

\* line 519
GuideFormIncomplete ==
    newGuideName = "" \/ newGuideEmail = "" \/ newGuidePhone = ""
        \/ newGuideId = "" \/ newGuidePassword = ""

\* lines 519-526: handleCreateGuide on an incomplete form (the button is
\* disabled while isCreatingGuide, line 1168)
HandleCreateGuideInvalid ==
    /\ isLoggedIn /\ ~isCreatingGuide /\ GuideFormIncomplete
    /\ toast' = ErrorToast("Please fill in all required fields")
    /\ UNCHANGED <<profileEvents, editVars, touristVars, now, writes, storeVars, loginVars, collVars, assignments,
                   assignFormVars, guideFormVars, reassignVars, asyncVars>>

\* the row the insert of lines 535-548 stores
NewGuideRow ==
    [id |-> GuideRowIds[Len(dbGuides) + 1], guide_id |-> newGuideId,
     password |-> newGuidePassword, name |-> newGuideName,
     email |-> newGuideEmail, phone |-> newGuidePhone,
     specializations |-> Specializations(newGuideSpecializations),
     status |-> newGuideStatus, rating |-> 0]

\* lines 528-548: handleCreateGuide raises the busy flag and issues the insert
HandleCreateGuide(ok) ==
    /\ isLoggedIn /\ ~isCreatingGuide /\ ~GuideFormIncomplete
    /\ CanWrite
    /\ writes' = writes + 1
    /\ isCreatingGuide' = TRUE
    /\ inflight' = inflight \cup
            {[kind |-> "createGuide.insert", ok |-> ok, newGuideId |-> newGuideId]}
    /\ IF ok
       THEN /\ dbGuides' = Append(dbGuides, NewGuideRow)
            /\ pushEvents' = Publish("guides")
       ELSE UNCHANGED <<dbGuides, pushEvents>>
    /\ UNCHANGED <<profileEvents, editVars, touristVars, now, dbAssignments, dbRequests, loginVars, collVars, assignments,
                   assignFormVars, newGuideName, newGuideEmail, newGuidePhone,
                   newGuideId, newGuidePassword, newGuideSpecializations,
                   newGuideStatus, reassignVars, toast, subscribed, timerPending>>

\* line 554: the description of the success toast
GuideCreatedMessage(id) ==
    CASE id = "G003" -> "Guide created successfully! Guide ID: G003"

\* lines 550-578: the insert returned
CreateGuideReturned(c) ==
    /\ c \in inflight /\ c.kind = "createGuide.insert"
    /\ IF c.ok
       THEN /\ toast' = InfoToast("Success", GuideCreatedMessage(c.newGuideId))
            /\ newGuideName' = "" /\ newGuideEmail' = "" /\ newGuidePhone' = ""
            /\ newGuideId' = "" /\ newGuidePassword' = ""
            /\ newGuideSpecializations' = <<>>
            /\ newGuideStatus' = "available"
            /\ inflight' = (inflight \ {c}) \cup {FetchGuidesCall}
       ELSE /\ toast' = ErrorToast(StoreErrorMessage)
            /\ inflight' = inflight \ {c}
            /\ UNCHANGED <<newGuideName, newGuideEmail, newGuidePhone, newGuideId,
                           newGuidePassword, newGuideSpecializations, newGuideStatus>>
    /\ isCreatingGuide' = FALSE
    /\ UNCHANGED <<profileEvents, editVars, touristVars, now, writes, storeVars, loginVars, collVars, assignments,
                   assignFormVars, reassignVars, pushEvents, subscribed, timerPending>>

(* ------------- reassignment dialog (672-759, 1539-1591) ---------------- *)

\* the tourists a row of the assignments list (line 1045) or of the guide
\* requests list (line 1394) offers the dialog for
DialogTouristIds ==
    {assignments[i].touristId : i \in 1..Len(assignments)}
        \cup {guideRequests[i].tourist_id : i \in 1..Len(guideRequests)}

\* lines 756-759
OpenTouristReassignmentDialog(t) ==
    /\ isLoggedIn /\ t \in DialogTouristIds
    /\ reassignmentTouristId' = t
    /\ reassignmentDialogOpen' = TRUE
    /\ UNCHANGED <<profileEvents, editVars, touristVars, now, writes, storeVars, loginVars, collVars, assignments, assignFormVars,
                   guideFormVars, reassignmentNewGuideId, toast, asyncVars>>

\* line 1560: the dialog's guide picker
SetReassignmentNewGuideId(g) ==
    /\ reassignmentDialogOpen /\ g \in AvailableGuideIds
    /\ reassignmentNewGuideId' = g
    /\ UNCHANGED <<profileEvents, editVars, touristVars, now, writes, storeVars, loginVars, collVars, assignments, assignFormVars,
                   guideFormVars, reassignmentDialogOpen, reassignmentTouristId,
                   toast, asyncVars>>

\* lines 1576-1580: the dialog's Cancel button
CancelReassignment ==
    /\ reassignmentDialogOpen
    /\ reassignmentDialogOpen' = FALSE
    /\ reassignmentTouristId' = ""
    /\ reassignmentNewGuideId' = ""
    /\ UNCHANGED <<profileEvents, editVars, touristVars, now, writes, storeVars, loginVars, collVars, assignments, assignFormVars,
                   guideFormVars, toast, asyncVars>>

\* line 1539: onOpenChange(false), the dialog dismissed by Escape or by a
\* click outside it; the selection stays
DismissReassignmentDialog ==
    /\ reassignmentDialogOpen
    /\ reassignmentDialogOpen' = FALSE
    /\ UNCHANGED <<profileEvents, editVars, touristVars, now, writes, storeVars, loginVars, collVars, assignments,
                   assignFormVars, guideFormVars, reassignmentNewGuideId,
                   reassignmentTouristId, toast, asyncVars>>

\* line 673
ReassignIncomplete == reassignmentNewGuideId = "" \/ reassignmentTouristId = ""

\* lines 673-680: handleReassignGuide without a guide or a tourist
HandleReassignGuideInvalid ==
    /\ reassignmentDialogOpen /\ ReassignIncomplete
    /\ toast' = ErrorToast("Please select a new guide")
    /\ UNCHANGED <<profileEvents, editVars, touristVars, now, writes, storeVars, loginVars, collVars, assignments, assignFormVars,
                   guideFormVars, reassignVars, asyncVars>>

\* an update that writes the status as well as the guide
UpdateGuideIdAndStatus(rows, id, gid) ==
    [i \in 1..Len(rows) |->
        IF rows[i].id = id
        THEN [rows[i] EXCEPT !.guide_id = gid, !.status = "active"]
        ELSE rows[i]]

\* .update({ guide_id: gid }).eq('id', id)
UpdateGuideId(rows, id, gid) ==
    [i \in 1..Len(rows) |->
        IF rows[i].id = id THEN [rows[i] EXCEPT !.guide_id = gid] ELSE rows[i]]

\* lines 705-712: the row the insert branch sends; `new Date()` of line 709
\* read the clock at `ms`, `Date.now()` of line 710 read it at `later`
ReassignRow(tid, gid, ms, later) ==
    NewRow(tid, gid, DefaultTourName, ISODate(ms), ISODate(later + WeekMs))

\* lines 684-691: an entry of the tourist is found in the local list, and
\* the update of its row is issued
HandleReassignGuideUpdate(ok) ==
    /\ reassignmentDialogOpen /\ ~ReassignIncomplete
    /\ CanWrite
    /\ writes' = writes + 1
    /\ FindAssignment(assignments, reassignmentTouristId) # <<>>
    /\ LET existingAssignment == FindAssignment(assignments, reassignmentTouristId)[1]
           call == [kind |-> "reassign.update", ok |-> ok,
                    id |-> existingAssignment.id,
                    reassignmentNewGuideId |-> reassignmentNewGuideId]
       IN /\ inflight' = inflight \cup {call}
          /\ IF ok
             THEN /\ dbAssignments' = UpdateGuideId(dbAssignments,
                                          existingAssignment.id, reassignmentNewGuideId)
                  /\ pushEvents' = Publish("tour_assignments")
             ELSE UNCHANGED <<dbAssignments, pushEvents>>
    /\ UNCHANGED <<profileEvents, editVars, touristVars, now, dbGuides, dbRequests, loginVars, collVars, assignments,
                   assignFormVars, guideFormVars, reassignVars, toast, subscribed,
                   timerPending>>

\* lines 684-714: no entry of the tourist is found in the local list, and
\* the insert of a new row is issued
HandleReassignGuideInsert(ok) ==
    /\ reassignmentDialogOpen /\ ~ReassignIncomplete
    /\ CanWrite
    /\ writes' = writes + 1
    /\ FindAssignment(assignments, reassignmentTouristId) = <<>>
    /\ \E later \in now..LastInstant :
        LET row == ReassignRow(reassignmentTouristId, reassignmentNewGuideId,
                               now, later)
            call == [kind |-> "reassign.insert", ok |-> ok,
                     data |-> IF ok THEN <<row>> ELSE <<>>,
                     reassignmentTouristId |-> reassignmentTouristId,
                     reassignmentNewGuideId |-> reassignmentNewGuideId]
        IN /\ now' = later
           /\ inflight' = inflight \cup {call}
           /\ IF ok
              THEN /\ dbAssignments' = Append(dbAssignments, row)
                   /\ pushEvents' = Publish("tour_assignments")
              ELSE UNCHANGED <<dbAssignments, pushEvents>>
    /\ UNCHANGED <<profileEvents, editVars, touristVars, dbGuides, dbRequests, loginVars, collVars, assignments,
                   assignFormVars, guideFormVars, reassignVars, toast, subscribed,
                   timerPending>>

\* lines 696-700: the local patch of the update branch
PatchGuideId(list, id, gid) ==
    [i \in 1..Len(list) |->
        IF list[i].id = id THEN [list[i] EXCEPT !.guideId = gid] ELSE list[i]]

\* lines 719-730: the local entry of the insert branch
ReassignEntry(c) ==
    [id |-> c.data[1].id, touristId |-> c.reassignmentTouristId,
     guideId |-> c.reassignmentNewGuideId, tourName |-> DefaultTourName,
     startDate |-> c.data[1].start_date, endDate |-> c.data[1].end_date,
     status |-> "active"]

\* an end that closes the dialog and keeps what was chosen in it
ReassignSucceededKeepsSelection ==
    /\ toast' = InfoToast("Success", "Tour guide assigned successfully!")
    /\ reassignmentDialogOpen' = FALSE
    /\ UNCHANGED <<reassignmentTouristId, reassignmentNewGuideId>>

\* lines 733-745: the end both branches share
ReassignSucceeded ==
    /\ toast' = InfoToast("Success", "Tour guide assigned successfully!")
    /\ reassignmentDialogOpen' = FALSE
    /\ reassignmentTouristId' = ""
    /\ reassignmentNewGuideId' = ""

\* a catch that gives the dialog up as well
ReassignFailedClosesDialog ==
    /\ toast' = ErrorToast(StoreErrorMessage)
    /\ reassignmentDialogOpen' = FALSE
    /\ reassignmentTouristId' = ""
    /\ reassignmentNewGuideId' = ""
    /\ UNCHANGED assignments

\* lines 746-753: the catch
ReassignFailed ==
    /\ toast' = ErrorToast(StoreErrorMessage)
    /\ UNCHANGED <<assignments, reassignVars>>

\* lines 693-700 and 733-753: the update returned
ReassignUpdateReturned(c) ==
    /\ c \in inflight /\ c.kind = "reassign.update"
    /\ IF c.ok
       THEN /\ assignments' = PatchGuideId(assignments, c.id, c.reassignmentNewGuideId)
            /\ ReassignSucceeded
            /\ inflight' = (inflight \ {c}) \cup
                                {FetchAssignmentsCall, FetchGuideRequestsCall}
       ELSE /\ ReassignFailed
            /\ inflight' = inflight \ {c}
    /\ UNCHANGED <<profileEvents, editVars, touristVars, now, writes, storeVars, loginVars, collVars, assignFormVars, guideFormVars,
                   pushEvents, subscribed, timerPending>>

\* lines 716-753: the insert returned
ReassignInsertReturned(c) ==
    /\ c \in inflight /\ c.kind = "reassign.insert"
    /\ IF c.ok
       THEN /\ assignments' = Append(assignments, ReassignEntry(c))
            /\ ReassignSucceeded
            /\ inflight' = (inflight \ {c}) \cup
                                {FetchAssignmentsCall, FetchGuideRequestsCall}
       ELSE /\ ReassignFailed
            /\ inflight' = inflight \ {c}
    /\ UNCHANGED <<profileEvents, editVars, touristVars, now, writes, storeVars, loginVars, collVars, assignFormVars, guideFormVars,
                   pushEvents, subscribed, timerPending>>

(* ------- local-only list edits (510-516, 662-670, 1052-1070) ---------- *)

LocalAssignmentIds == {assignments[i].id : i \in 1..Len(assignments)}

\* a filter that drops every entry of the removed entry's tourist
WithoutAssignmentOfTourist(list, assignmentId) ==
    LET gone == {list[i].touristId :
                    i \in {j \in 1..Len(list) : list[j].id = assignmentId}}
    IN SelectSeq(list, LAMBDA a : a.touristId \notin gone)

\* line 511: prev.filter(a => a.id !== assignmentId)
WithoutAssignment(list, assignmentId) ==
    SelectSeq(list, LAMBDA a : a.id # assignmentId)

\* lines 663-665: prev.map(a => a.id === assignmentId ? { ...a, status } : a)
WithStatus(list, assignmentId, status) ==
    [i \in 1..Len(list) |->
        IF list[i].id = assignmentId
        THEN [list[i] EXCEPT !.status = status] ELSE list[i]]

\* lines 510-516, called by the Trash button of an entry (line 1054)
RemoveAssignment(assignmentId) ==
    /\ isLoggedIn /\ assignmentId \in LocalAssignmentIds
    /\ assignments' = WithoutAssignment(assignments, assignmentId)
    /\ toast' = InfoToast("Assignment Removed",
                          "Assignment has been removed successfully.")
    /\ UNCHANGED <<profileEvents, editVars, touristVars, now, writes, storeVars, loginVars, collVars, assignFormVars,
                   guideFormVars, reassignVars, asyncVars>>

\* line 668: the description of the status toast
StatusChangedMessage(status) ==
    CASE status = "pending" -> "Assignment status changed to pending."
      [] status = "active" -> "Assignment status changed to active."
      [] status = "completed" -> "Assignment status changed to completed."

\* lines 662-670
UpdateAssignmentStatus(assignmentId, status) ==
    /\ isLoggedIn
    /\ assignments' = WithStatus(assignments, assignmentId, status)
    /\ toast' = InfoToast("Status Updated", StatusChangedMessage(status))
    /\ UNCHANGED <<profileEvents, editVars, touristVars, now, writes, storeVars, loginVars, collVars, assignFormVars,
                   guideFormVars, reassignVars, asyncVars>>

\* lines 1063-1071: the Activate button, shown for a pending entry
ActivateAssignment(assignmentId) ==
    /\ \E i \in 1..Len(assignments) :
          assignments[i].id = assignmentId /\ assignments[i].status = "pending"
    /\ UpdateAssignmentStatus(assignmentId, "active")

(* ------------ guide requests (627-660, 1485-1530) ---------------------- *)

\* the requests the list offers the approval picker and the Reject button
\* for (line 1501: request.status === 'pending')
PendingRequestIds ==
    {guideRequests[i].id :
        i \in {j \in 1..Len(guideRequests) : guideRequests[j].status = "pending"}}

\* an update that writes the request's message as well
RespondUpdateAndMessage(rows, requestId, status, guideId, response) ==
    [i \in 1..Len(rows) |->
        IF rows[i].id = requestId
        THEN [rows[i] EXCEPT !.status = status, !.admin_response = response,
                             !.request_message = response,
                             !.assigned_guide_id =
                                 IF status = "approved" /\ guideId # ""
                                 THEN guideId ELSE @]
        ELSE rows[i]]

\* lines 629-641: .update(updateData).eq('id', requestId); guideId is ''
\* where the call passes undefined
RespondUpdate(rows, requestId, status, guideId, response) ==
    [i \in 1..Len(rows) |->
        IF rows[i].id = requestId
        THEN [rows[i] EXCEPT !.status = status, !.admin_response = response,
                             !.assigned_guide_id =
                                 IF status = "approved" /\ guideId # ""
                                 THEN guideId ELSE @]
        ELSE rows[i]]

\* lines 627-641: handleRequestResponse issues the update
HandleRequestResponse(requestId, status, guideId, response, ok) ==
    /\ isLoggedIn
    /\ CanWrite
    /\ writes' = writes + 1
    /\ inflight' = inflight \cup
            {[kind |-> "respond.update", ok |-> ok, requestId |-> requestId,
              status |-> status, guideId |-> guideId]}
    /\ IF ok
       THEN /\ dbRequests' = RespondUpdate(dbRequests, requestId, status, guideId,
                                           response)
            /\ pushEvents' = Publish("guide_requests")
       ELSE UNCHANGED <<dbRequests, pushEvents>>
    /\ UNCHANGED <<profileEvents, editVars, touristVars, now, dbAssignments, dbGuides, loginVars, collVars, assignments,
                   assignFormVars, guideFormVars, reassignVars, toast, subscribed,
                   timerPending>>

\* lines 1503-1518: a guide picked in the approval picker of a pending request
ApproveRequest(requestId, guideId, ok) ==
    /\ requestId \in PendingRequestIds /\ guideId \in AvailableGuideIds
    /\ HandleRequestResponse(requestId, "approved", guideId,
                             "Guide assigned successfully!", ok)

\* lines 1519-1526: the Reject button of a pending request
RejectRequest(requestId, ok) ==
    /\ requestId \in PendingRequestIds
    /\ HandleRequestResponse(requestId, "rejected", "",
                             "Sorry, no guides available at this time.", ok)

\* line 646: the description of the success toast
RequestAnsweredMessage(status) ==
    CASE status = "approved" -> "Request approved successfully!"
      [] status = "rejected" -> "Request rejected successfully!"

\* lines 642-659: the update returned
RespondReturned(c) ==
    /\ c \in inflight /\ c.kind = "respond.update"
    /\ IF c.ok
       THEN /\ toast' = InfoToast("Success", RequestAnsweredMessage(c.status))
            /\ inflight' = (inflight \ {c}) \cup
                                {FetchGuideRequestsCall, FetchGuidesCall}
       ELSE /\ toast' = ErrorToast("Failed to update request")
            /\ inflight' = inflight \ {c}
    /\ UNCHANGED <<profileEvents, editVars, touristVars, now, writes, storeVars, loginVars, collVars, assignments,
                   assignFormVars, guideFormVars, reassignVars, pushEvents,
                   subscribed, timerPending>>

(* --------------------------- specifications ---------------------------- *)

Tables == {"guide_requests", "tour_assignments", "guides"}

\* another client of the store changes a row of a watched table (no column
\* the dashboard selects changes), and the store publishes the event
RemoteChange(table) ==
    /\ subscribed /\ pushEvents = {} /\ CanStart
    /\ pushEvents' = pushEvents \cup {table}
    /\ UNCHANGED <<profileEvents, editVars, touristVars, now, writes, storeVars, loginVars, collVars, assignments, assignFormVars,
                   guideFormVars, reassignVars, toast, inflight, subscribed,
                   timerPending>>

(* ------------------------ guide edit (581-625) -------------------------- *)

\* the drafts the inputs of lines 1188-1224 turn the copy of `guide` into:
\* each text either left or retyped, any status option, the specializations
\* left or parsed from a typed text (line 1221)
DraftFills(guide) ==
    {[guide EXCEPT !.name = f.name, !.email = f.email, !.phone = f.phone,
                   !.status = f.status, !.specializations = f.specializations] :
        f \in [name : {guide.name, "Alya"}, email : {guide.email, "alya@x"},
               phone : {guide.phone, "9"},
               status : {"available", "busy", "offline"},
               specializations : {guide.specializations} \cup
                   {Specializations(text) : text \in SpecializationInputs}]}

\* the card of the guide being edited is rendered (line 1185)
EditModeShown ==
    /\ isLoggedIn /\ editGuideData # <<>>
    /\ \E i \in 1..Len(guides) : guides[i].id = editingGuide

EditUnchanged ==
    UNCHANGED <<profileEvents, touristVars, now, writes, storeVars, loginVars, collVars, assignments,
                assignFormVars, guideFormVars, reassignVars, toast, asyncVars>>

\* lines 581-584, handleEditGuide, from the Edit button of a card in view mode
HandleEditGuide(i) ==
    /\ isLoggedIn /\ i \in 1..Len(guides) /\ guides[i].id # editingGuide
    /\ editingGuide' = guides[i].id
    /\ editGuideData' = <<guides[i]>>
    /\ EditUnchanged

\* an update that leaves the filter on the id out
SaveEditUpdateEveryRow(rows, draft) ==
    [i \in 1..Len(rows) |->
        [rows[i] EXCEPT !.name = draft.name, !.email = draft.email,
                        !.phone = draft.phone,
                        !.specializations = draft.specializations,
                        !.status = draft.status]]

\* lines 590-599: update({name, email, phone, specializations, status})
\* .eq('id', editGuideData.id)
SaveEditUpdate(rows, draft) ==
    [i \in 1..Len(rows) |->
        IF rows[i].id = draft.id
        THEN [rows[i] EXCEPT !.name = draft.name, !.email = draft.email,
                             !.phone = draft.phone,
                             !.specializations = draft.specializations,
                             !.status = draft.status]
        ELSE rows[i]]

\* lines 586-599, handleSaveEdit up to its await
HandleSaveEdit(ok) ==
    /\ EditModeShown
    /\ CanWrite
    /\ writes' = writes + 1
    /\ inflight' = inflight \cup {[kind |-> "saveEdit.update", ok |-> ok]}
    /\ IF ok
       THEN /\ dbGuides' = SaveEditUpdate(dbGuides, editGuideData[1])
            /\ pushEvents' = Publish("guides")
       ELSE UNCHANGED <<dbGuides, pushEvents>>
    /\ UNCHANGED <<profileEvents, editVars, touristVars, now, dbAssignments, dbRequests, loginVars,
                   collVars, assignments, assignFormVars, guideFormVars, reassignVars,
                   toast, subscribed, timerPending>>

\* lines 601-619: the update returned
SaveEditReturned(c) ==
    /\ c \in inflight /\ c.kind = "saveEdit.update"
    /\ IF c.ok
       THEN /\ toast' = InfoToast("Success", "Guide updated successfully!")
            /\ editingGuide' = "" /\ editGuideData' = <<>>
            /\ inflight' = (inflight \ {c}) \cup {FetchGuidesCall}
       ELSE /\ toast' = ErrorToast(StoreErrorMessage)
            /\ inflight' = inflight \ {c}
            /\ UNCHANGED editVars
    /\ UNCHANGED <<profileEvents, touristVars, now, writes, storeVars, loginVars, collVars, assignments,
                   assignFormVars, guideFormVars, reassignVars, pushEvents, subscribed,
                   timerPending>>

\* lines 622-625, handleCancelEdit
HandleCancelEdit ==
    /\ EditModeShown
    /\ editingGuide' = "" /\ editGuideData' = <<>>
    /\ EditUnchanged

(* --------------- tourist login form (TouristPasswordLogin.tsx) ---------- *)

\* requests a form sends to the auth provider in one run
MaxSubmits == 2

\* texts typed into the form, as sequences of characters
EmailText == <<"a", "@", "b", ".", "c">>
BadEmailText == <<"a", "@", "b">>
PhoneText == <<"5", "0", "1", "2", "3", "4", "5", "6", "7">>
ShortPhoneText == <<"5", "0", "1">>
SecretText == <<"s", "e", "c", "r", "e", "t">>
ShortSecretText == <<"a", "b", "c">>
IdentifierInputs == {<<>>, <<" ">>, EmailText, BadEmailText, PhoneText, ShortPhoneText}
SecretInputs == {<<>>, SecretText, ShortSecretText}
FullNameInputs == {<<>>, <<"A">>}
PhoneNumberInputs == {<<>>, PhoneText}
Methods == {"email", "phone"}

\* the id the auth provider gives the user of an accepted request, and the
\* message of an error it returns
NewUserId == "u1"
AuthErrorMessage == "auth error"

Destructive(t, d) == [title |-> t, description |-> d, variant |-> "destructive"]

\* line 87: /^[^\s@]+@[^\s@]+\.[^\s@]+$/
EmailRegexMatches(s) ==
    \E i, j \in 1..Len(s) :
        /\ 1 < i /\ i + 1 < j /\ j < Len(s)
        /\ s[i] = "@" /\ s[j] = "."
        /\ \A k \in 1..Len(s) : k # i => s[k] \notin {"@", " "}

DigitChars == {"0", "1", "2", "3", "4", "5", "6", "7", "8", "9"}

\* line 97: identifier.replace(/\D/g, '')
DigitsOf(s) == SelectSeq(s, LAMBDA ch : ch \in DigitChars)

\* lines 57-126, validateInput: the toast of the first check that fails, or
\* NoToast when all pass (toasts carry the translation keys)
ValidationToast(ls) ==
    IF Trim(ls.identifier) = <<>> \/ Trim(ls.password) = <<>>
    THEN Destructive("missingInfo", "fillAllFields")
    ELSE IF ls.isSignUp /\ Trim(ls.fullName) = <<>>
    THEN Destructive("missingInfo", "enterFullNameMsg")
    ELSE IF ls.isSignUp /\ ls.method = "phone" /\ Trim(ls.identifier) = <<>>
    THEN Destructive("missingInfo", "Please enter your phone number.")
    ELSE IF ls.method = "email" /\ ~EmailRegexMatches(ls.identifier)
    THEN Destructive("invalidEmail", "validEmailMsg")
    ELSE IF ls.method # "email" /\ Len(DigitsOf(ls.identifier)) < 9
    THEN Destructive("invalidPhone", "validPhoneMsg")
    ELSE IF ls.isSignUp /\ ls.password # ls.confirmPassword
    THEN Destructive("passwordsNoMatch", "passwordsMatchMsg")
    ELSE IF Len(ls.password) < 6
    THEN Destructive("passwordTooShort", "passwordLengthMsg")
    ELSE NoToast

ValidateInput(ls) == ValidationToast(ls) = NoToast

\* what the admin view holds is untouched by the form
AdminViewUnchanged ==
    UNCHANGED <<storeVars, loginVars, collVars, assignments, assignFormVars,
                guideFormVars, reassignVars, editVars, pushEvents, profileEvents,
                subscribed, timerPending, now, writes>>

\* lines 46-55, handleTabChange (the tabs are not disabled while loading)
HandleTabChange(method) ==
    /\ loginState' = [loginState EXCEPT !.method = method, !.identifier = <<>>,
                                        !.password = <<>>, !.confirmPassword = <<>>]
    /\ UNCHANGED <<authRequests, authResponses, profileUpserts, loginSuccesses, toast,
                   inflight>>
    /\ AdminViewUnchanged

\* lines 240-249, toggleAuthMode (its button is disabled while loading)
ToggleAuthMode ==
    /\ ~loginState.loading
    /\ loginState' = [loginState EXCEPT !.isSignUp = ~loginState.isSignUp,
                                        !.password = <<>>, !.confirmPassword = <<>>,
                                        !.fullName = <<>>, !.phoneNumber = <<>>]
    /\ UNCHANGED <<authRequests, authResponses, profileUpserts, loginSuccesses, toast,
                   inflight>>
    /\ AdminViewUnchanged

\* lines 232-238 with 129 and 163: a submit that validateInput turns down
\* a submit that raises the busy flag before it validates
HandleSubmitInvalidStaysBusy ==
    /\ ~loginState.loading
    /\ ~ValidateInput(loginState)
    /\ toast' = ValidationToast(loginState)
    /\ loginState' = [loginState EXCEPT !.loading = TRUE]
    /\ UNCHANGED <<authRequests, authResponses, profileUpserts, loginSuccesses, inflight>>
    /\ AdminViewUnchanged

HandleSubmitInvalid ==
    /\ ~loginState.loading
    /\ ~ValidateInput(loginState)
    /\ toast' = ValidationToast(loginState)
    /\ UNCHANGED <<touristVars, inflight>>
    /\ AdminViewUnchanged

\* lines 134-137: the argument of signInWithPassword
SignInRequest(ls) ==
    [op |-> "signInWithPassword", email |-> ls.identifier, password |-> ls.password]

\* lines 128-137, handleSignIn up to its await
HandleSignIn ==
    /\ ~loginState.loading /\ ~loginState.isSignUp
    /\ ValidateInput(loginState)
    /\ CanStart /\ Len(authRequests) < MaxSubmits
    /\ loginState' = [loginState EXCEPT !.loading = TRUE]
    /\ authRequests' = Append(authRequests, SignInRequest(loginState))
    /\ inflight' = inflight \cup {[kind |-> "auth.signIn"]}
    /\ UNCHANGED <<authResponses, profileUpserts, loginSuccesses, toast>>
    /\ AdminViewUnchanged

\* what the auth provider may answer a sign-in with: an error (returned, or
\* thrown: both reach the catch), a user with a session, or neither
SignInOutcomes == {"error", "session", "nosession"}

\* the same for a sign-up; "confirm" is a user without a session, the answer
\* while the e-mail address awaits confirmation
SignUpOutcomes == {"error", "session", "confirm"}

\* a test that looks at the user only
HasUser(outcome) == outcome # "error"

\* lines 141 and 183: data.user && data.session
HasUserAndSession(outcome) == outcome = "session"

\* lines 139-159: the sign-in returned
SignInReturned(c, outcome) ==
    /\ c \in inflight /\ c.kind = "auth.signIn"
    /\ outcome \in SignInOutcomes
    /\ inflight' = inflight \ {c}
    /\ authResponses' = Append(authResponses, outcome)
    /\ IF outcome = "error"
       THEN /\ toast' = Destructive("signInFailed", AuthErrorMessage)
            /\ UNCHANGED loginSuccesses
       ELSE IF HasUserAndSession(outcome)
       THEN /\ toast' = InfoToast("loginSuccessful", "welcomeTourist")
            /\ loginSuccesses' = Append(loginSuccesses, NewUserId)
       ELSE UNCHANGED <<toast, loginSuccesses>>
    /\ loginState' = [loginState EXCEPT !.loading = FALSE]
    /\ UNCHANGED <<authRequests, profileUpserts>>
    /\ AdminViewUnchanged

\* lines 168-179: the argument of signUp
SignUpRequest(ls) ==
    [op |-> "signUp", email |-> ls.identifier, password |-> ls.password,
     data |-> [user_type |-> "tourist", full_name |-> Trim(ls.fullName),
               phone_number |-> Trim(ls.phoneNumber)]]

\* lines 162-179, handleSignUp up to its await; the continuation keeps the
\* loginState of the render the click came from
HandleSignUp ==
    /\ ~loginState.loading /\ loginState.isSignUp
    /\ ValidateInput(loginState)
    /\ CanStart /\ Len(authRequests) < MaxSubmits
    /\ loginState' = [loginState EXCEPT !.loading = TRUE]
    /\ authRequests' = Append(authRequests, SignUpRequest(loginState))
    /\ inflight' = inflight \cup {[kind |-> "auth.signUp", form |-> loginState]}
    /\ UNCHANGED <<authResponses, profileUpserts, loginSuccesses, toast>>
    /\ AdminViewUnchanged

\* a profile row that leaves the user type out
ProfileDataUntyped(ls, userId) ==
    [id |-> userId, user_type |-> "", full_name |-> Trim(ls.fullName),
     phone_number |-> Trim(ls.phoneNumber),
     contact_info |-> IF ls.method = "phone" THEN ls.identifier ELSE ls.phoneNumber]

\* lines 185-191: profileData
ProfileData(ls, userId) ==
    [id |-> userId, user_type |-> "tourist", full_name |-> Trim(ls.fullName),
     phone_number |-> Trim(ls.phoneNumber),
     contact_info |-> IF ls.method = "phone" THEN ls.identifier ELSE ls.phoneNumber]

\* lines 181-229: the sign-up returned: with an error (the catch), with user
\* and session (the profile upsert is issued), or accepted without a session
\* (the provider awaits the e-mail confirmation)
SignUpReturned(c, outcome) ==
    /\ c \in inflight /\ c.kind = "auth.signUp"
    /\ outcome \in SignUpOutcomes
    /\ authResponses' = Append(authResponses, outcome)
    /\ IF outcome = "error"
       THEN /\ toast' = Destructive("signUpFailed", AuthErrorMessage)
            /\ loginState' = [loginState EXCEPT !.loading = FALSE]
            /\ inflight' = inflight \ {c}
            /\ UNCHANGED profileUpserts
       ELSE IF HasUserAndSession(outcome)
       THEN /\ profileUpserts' = Append(profileUpserts, ProfileData(c.form, NewUserId))
            /\ inflight' = (inflight \ {c}) \cup {[kind |-> "profiles.upsert"]}
            /\ UNCHANGED <<loginState, toast>>
       ELSE /\ toast' = InfoToast("checkEmail", "confirmEmailMsg")
            /\ loginState' = [loginState EXCEPT !.isSignUp = FALSE, !.loading = FALSE]
            /\ inflight' = inflight \ {c}
            /\ UNCHANGED profileUpserts
    /\ UNCHANGED <<authRequests, loginSuccesses>>
    /\ AdminViewUnchanged

\* lines 193-229: the upsert returned; an error it returns or throws is only
\* logged
ProfileUpsertReturned(c, failed) ==
    /\ c \in inflight /\ c.kind = "profiles.upsert"
    /\ inflight' = inflight \ {c}
    /\ toast' = InfoToast("accountCreated", "welcomeTourist")
    /\ loginSuccesses' = Append(loginSuccesses, NewUserId)
    /\ loginState' = [loginState EXCEPT !.loading = FALSE]
    /\ UNCHANGED <<authRequests, authResponses, profileUpserts>>
    /\ AdminViewUnchanged

\* the states the inputs bring the form to: in sign-in mode the fields for
\* the name, the phone number and the confirmation are not rendered, and
\* toggleAuthMode empties them
LoginFormFills ==
    {ls \in [identifier : IdentifierInputs, password : SecretInputs,
             confirmPassword : SecretInputs, fullName : FullNameInputs,
             phoneNumber : PhoneNumberInputs, method : Methods,
             isSignUp : BOOLEAN, loading : {FALSE}] :
        ~ls.isSignUp => (/\ ls.confirmPassword = <<>> /\ ls.fullName = <<>>
                         /\ ls.phoneNumber = <<>>)}

InitTourist ==
    /\ AdminViewConstructed /\ dbAssignments = <<>>
    /\ loginState \in LoginFormFills
    /\ authRequests = <<>> /\ authResponses = <<>>
    /\ profileUpserts = <<>> /\ loginSuccesses = <<>>

NextTourist ==
    \/ \E method \in Methods : HandleTabChange(method)
    \/ ToggleAuthMode
    \/ HandleSubmitInvalid
    \/ HandleSignIn
    \/ \E c \in inflight, outcome \in SignInOutcomes : SignInReturned(c, outcome)
    \/ HandleSignUp
    \/ \E c \in inflight, outcome \in SignUpOutcomes : SignUpReturned(c, outcome)
    \/ \E c \in inflight, failed \in BOOLEAN : ProfileUpsertReturned(c, failed)

SpecTourist == InitTourist /\ [][NextTourist]_vars

\* the ids of the guides the store holds
StoredGuideIds == {dbGuides[i].id : i \in 1..Len(dbGuides)}

\* another client of the store (the guide's own view, another admin) sets the
\* status of a guide, and the store publishes the event (one event at a time,
\* as in RemoteChange)
RemoteGuideStatus(gid, status) ==
    /\ pushEvents = {} /\ CanStart
    /\ \E i \in 1..Len(dbGuides) : dbGuides[i].id = gid /\ dbGuides[i].status # status
    /\ dbGuides' = [i \in 1..Len(dbGuides) |->
                      IF dbGuides[i].id = gid
                      THEN [dbGuides[i] EXCEPT !.status = status]
                      ELSE dbGuides[i]]
    /\ pushEvents' = Publish("guides")
    /\ UNCHANGED <<profileEvents, editVars, touristVars, now, writes, dbAssignments, dbRequests, loginVars,
                   collVars, assignments, assignFormVars, guideFormVars, reassignVars,
                   toast, inflight, subscribed, timerPending>>

\* the dashboard from its construction: the login, the fetches it starts and
\* the refetches the channel starts
Next ==
    \/ \E v \in AdminIdInputs : SetAdminId(v)
    \/ \E v \in PasswordInputs : SetPassword(v)
    \/ HandleLogin
    \/ TimerFire
    \/ \E table \in Tables : RemoteChange(table)
    \/ \E table \in Tables : PushDeliver(table)
    \/ \E c \in inflight, err \in BOOLEAN : FetchTouristsProfiles(c, err)
    \/ \E c \in inflight, err \in BOOLEAN : FetchTouristsAssignments(c, err)
    \/ \E c \in inflight, err \in BOOLEAN : FetchAssignmentsDone(c, err)
    \/ \E c \in inflight, err \in BOOLEAN : FetchGuidesDone(c, err)
    \/ \E c \in inflight, err \in BOOLEAN : FetchGuideRequestsDone(c, err)
    \/ \E c \in inflight, err \in BOOLEAN : FetchDriversDone(c, err)

Spec == Init /\ [][Next]_vars

\* the store, the collections and the channel once the admin has logged in
\* and the fetches of the login effect have all returned data, over a store
\* opened with `rows`
LoadedWith(rows, requests) ==
    /\ dbAssignments = rows
    /\ dbGuides = InitialGuides
    /\ dbRequests = requests
    /\ mounted = TRUE
    /\ isLoggedIn = TRUE /\ adminId = AdminId /\ password = AdminPassword
    /\ tourists \in {FormatTourists(Profiles, q) : q \in SelectCurrentAssignments}
    /\ guides = SelectGuides
    /\ guideRequests = SelectGuideRequests
    /\ drivers = SelectDrivers
    /\ assignments = FormatAssignments(SelectAssignments)
    /\ isCreatingGuide = FALSE
    /\ TouristFormUntouched
    /\ toast = InfoToast("Login Successful", "Welcome to the Admin Dashboard!")
    /\ inflight = {} /\ pushEvents = {} /\ subscribed = TRUE
    /\ profileEvents = {}
    /\ timerPending = FALSE
    /\ now = FirstInstant
    /\ writes = 0

LoadedData(rows) == LoadedWith(rows, InitialRequests)

\* the assignment form as the admin may have filled it (lines 924-1010)
AssignFormFills ==
    [selectedTourist : {"", "t1"}, selectedGuide : {"", "g1"},
     tourName : {""} \cup TourNames,
     startDate : {""} \cup FormDates, endDate : {""} \cup FormDates]

\* the guide form as the admin may have filled it (lines 1115-1173)
GuideFormFills ==
    [newGuideName : GuideNameInputs, newGuideEmail : GuideEmailInputs,
     newGuidePhone : GuidePhoneInputs, newGuideId : GuideIdInputs,
     newGuidePassword : GuidePasswordInputs,
     newGuideSpecializations : SpecializationInputs,
     newGuideStatus : GuideStatusInputs]

\* the reassignment dialog as the admin may have left it: never opened, or
\* opened from the guide requests list, with or without a guide picked, and
\* still open or dismissed
DialogFills ==
    {[reassignmentDialogOpen |-> FALSE, reassignmentTouristId |-> "",
      reassignmentNewGuideId |-> ""]}
    \cup [reassignmentDialogOpen : BOOLEAN,
          reassignmentTouristId : {InitialRequests[1].tourist_id},
          reassignmentNewGuideId : {"", "g1"}]

\* the forms as useState leaves them
AssignFormEmpty ==
    [selectedTourist |-> "", selectedGuide |-> "", tourName |-> "",
     startDate |-> "", endDate |-> ""]
GuideFormEmpty ==
    [newGuideName |-> "", newGuideEmail |-> "", newGuidePhone |-> "",
     newGuideId |-> "", newGuidePassword |-> "",
     newGuideSpecializations |-> <<>>, newGuideStatus |-> "available"]
DialogClosed ==
    [reassignmentDialogOpen |-> FALSE, reassignmentTouristId |-> "",
     reassignmentNewGuideId |-> ""]

\* the inputs hold the fills `a`, `g` and `d`
FormFieldsAre(a, g, d) ==
    /\ selectedTourist = a.selectedTourist /\ selectedGuide = a.selectedGuide
    /\ tourName = a.tourName /\ startDate = a.startDate /\ endDate = a.endDate
    /\ newGuideName = g.newGuideName /\ newGuideEmail = g.newGuideEmail
    /\ newGuidePhone = g.newGuidePhone /\ newGuideId = g.newGuideId
    /\ newGuidePassword = g.newGuidePassword
    /\ newGuideSpecializations = g.newGuideSpecializations
    /\ newGuideStatus = g.newGuideStatus
    /\ reassignmentDialogOpen = d.reassignmentDialogOpen
    /\ reassignmentTouristId = d.reassignmentTouristId
    /\ reassignmentNewGuideId = d.reassignmentNewGuideId

\* the same, with no guide card in edit mode
FormsAre(a, g, d) ==
    /\ FormFieldsAre(a, g, d)
    /\ editingGuide = "" /\ editGuideData = <<>>

\* the loaded dashboard with its forms untouched
Loaded(rows) ==
    /\ LoadedData(rows)
    /\ FormsAre(AssignFormEmpty, GuideFormEmpty, DialogClosed)

\* the reassignment dialog at work on a loaded dashboard: the dialog, the
\* calls handleReassignGuide makes and the fetches it starts itself; the
\* store's reads return data (their failures are the subject of Spec)
NextReassign ==
    \/ Tick
    \/ \E t \in TouristIds : OpenTouristReassignmentDialog(t)
    \/ \E g \in AvailableGuideIds : SetReassignmentNewGuideId(g)
    \/ CancelReassignment
    \/ DismissReassignmentDialog
    \/ HandleReassignGuideInvalid
    \/ \E ok \in BOOLEAN : HandleReassignGuideUpdate(ok)
    \/ \E ok \in BOOLEAN : HandleReassignGuideInsert(ok)
    \/ \E c \in inflight : ReassignUpdateReturned(c)
    \/ \E c \in inflight : ReassignInsertReturned(c)
    \/ \E c \in inflight : FetchAssignmentsDone(c, FALSE)
    \/ \E c \in inflight : FetchGuideRequestsDone(c, FALSE)

InitReassign == \E rows \in StoresWithoutCurrentRow : Loaded(rows)

SpecReassign == InitReassign /\ [][NextReassign]_vars

\* the same, with the change events the writes publish delivered to the
\* channel's callbacks, which is what refetches the tourists
NextReassignFeed ==
    \/ Tick
    \/ \E t \in TouristIds : OpenTouristReassignmentDialog(t)
    \/ \E g \in AvailableGuideIds : SetReassignmentNewGuideId(g)
    \/ CancelReassignment
    \/ DismissReassignmentDialog
    \/ HandleReassignGuideInvalid
    \/ \E ok \in BOOLEAN : HandleReassignGuideUpdate(ok)
    \/ \E ok \in BOOLEAN : HandleReassignGuideInsert(ok)
    \/ \E c \in inflight : ReassignUpdateReturned(c)
    \/ \E c \in inflight : ReassignInsertReturned(c)
    \/ \E table \in Tables : PushDeliver(table)
    \/ \E c \in inflight : FetchTouristsProfiles(c, FALSE)
    \/ \E c \in inflight : FetchTouristsAssignments(c, FALSE)
    \/ \E c \in inflight : FetchAssignmentsDone(c, FALSE)
    \/ \E c \in inflight : FetchGuideRequestsDone(c, FALSE)

SpecReassignFeed == InitReassign /\ [][NextReassignFeed]_vars

\* the three submit handlers at work on a loaded dashboard on which the
\* admin has filled one of the forms in any of the ways its inputs allow
InitForms ==
    /\ \E rows \in StoresWithoutCurrentRow : LoadedData(rows)
    /\ \E a \in AssignFormFills, g \in GuideFormFills, d \in DialogFills :
          /\ Cardinality({<<1, a>>, <<2, g>>, <<3, d>>}
                  \ {<<1, AssignFormEmpty>>, <<2, GuideFormEmpty>>, <<3, DialogClosed>>}) <= 1
          /\ FormsAre(a, g, d)

NextForms ==
    \/ HandleAssignGuideInvalid
    \/ \E ok \in BOOLEAN : HandleAssignGuide(ok)
    \/ \E c \in inflight : AssignInsertReturned(c)
    \/ \E c \in inflight, threw \in BOOLEAN : AssignNotifyReturned(c, threw)
    \/ HandleCreateGuideInvalid
    \/ \E ok \in BOOLEAN : HandleCreateGuide(ok)
    \/ \E c \in inflight : CreateGuideReturned(c)
    \/ HandleReassignGuideInvalid
    \/ \E ok \in BOOLEAN : HandleReassignGuideUpdate(ok)
    \/ \E ok \in BOOLEAN : HandleReassignGuideInsert(ok)
    \/ \E c \in inflight : ReassignUpdateReturned(c)
    \/ \E c \in inflight : ReassignInsertReturned(c)
    \/ \E table \in Tables : PushDeliver(table)
    \/ \E c \in inflight : FetchTouristsProfiles(c, FALSE)
    \/ \E c \in inflight : FetchTouristsAssignments(c, FALSE)
    \/ \E c \in inflight : FetchAssignmentsDone(c, FALSE)
    \/ \E c \in inflight : FetchGuidesDone(c, FALSE)
    \/ \E c \in inflight : FetchGuideRequestsDone(c, FALSE)

SpecForms == InitForms /\ [][NextForms]_vars

\* the three writes that name a guide, on a loaded dashboard whose forms are
\* filled and ready to submit, while guides change their status
InitEligible ==
    /\ \E rows \in StoresWithOneCurrentRow : LoadedData(rows)
    /\ \E a \in AssignFormFills, d \in DialogFills :
          /\ a.selectedTourist # "" /\ a.selectedGuide # "" /\ a.tourName # ""
          /\ a.startDate # "" /\ a.endDate # ""
          /\ d.reassignmentDialogOpen /\ d.reassignmentNewGuideId # ""
          /\ FormsAre(a, GuideFormEmpty, d)

NextEligible ==
    \/ \E gid \in StoredGuideIds, status \in GuideStatusInputs :
          RemoteGuideStatus(gid, status)
    \/ \E table \in Tables : PushDeliver(table)
    \/ \E c \in inflight : FetchGuidesDone(c, FALSE)
    \/ \E ok \in BOOLEAN : HandleAssignGuide(ok)
    \/ \E c \in inflight : AssignInsertReturned(c)
    \/ \E c \in inflight, threw \in BOOLEAN : AssignNotifyReturned(c, threw)
    \/ \E ok \in BOOLEAN : HandleReassignGuideUpdate(ok)
    \/ \E ok \in BOOLEAN : HandleReassignGuideInsert(ok)
    \/ \E c \in inflight : ReassignUpdateReturned(c)
    \/ \E c \in inflight : ReassignInsertReturned(c)
    \/ \E r \in PendingRequestIds, g \in AvailableGuideIds, ok \in BOOLEAN :
          ApproveRequest(r, g, ok)
    \/ \E c \in inflight : RespondReturned(c)
    \/ \E c \in inflight : FetchTouristsProfiles(c, FALSE)
    \/ \E c \in inflight : FetchTouristsAssignments(c, FALSE)
    \/ \E c \in inflight : FetchAssignmentsDone(c, FALSE)
    \/ \E c \in inflight : FetchGuideRequestsDone(c, FALSE)

SpecEligible == InitEligible /\ [][NextEligible]_vars

\* the longest specializations text typed, the characters it is typed from,
\* and the text the specification gives as its example ("D, N T, ")
MaxTextLen == 4
TextChars == {"D", " ", ","}
ExampleText == <<"D", ",", " ", "N", " ", "T", ",", " ">>
SpecializationTexts ==
    {ExampleText} \cup UNION {[1..n -> TextChars] : n \in 0..MaxTextLen}

\* guide creation on a loaded dashboard, the form complete and its
\* specializations input holding any text
InitCreate ==
    /\ LoadedData(<<>>)
    /\ \E text \in SpecializationTexts :
          FormsAre(AssignFormEmpty,
                   [newGuideName |-> "Noor", newGuideEmail |-> "noor@x",
                    newGuidePhone |-> "3", newGuideId |-> "G003",
                    newGuidePassword |-> "secret",
                    newGuideSpecializations |-> text,
                    newGuideStatus |-> "available"],
                   DialogClosed)

NextCreate ==
    \/ \E ok \in BOOLEAN : HandleCreateGuide(ok)
    \/ \E c \in inflight : CreateGuideReturned(c)
    \/ \E table \in Tables : PushDeliver(table)
    \/ \E c \in inflight : FetchGuidesDone(c, FALSE)

SpecCreate == InitCreate /\ [][NextCreate]_vars

\* the two submit handlers that keep a busy flag: the tourist form filled in
\* any way, or the dashboard loaded with the guide form filled in any way
InitBusy ==
    \/ InitTourist
    \/ /\ LoadedData(<<>>)
       /\ \E g \in GuideFormFills : FormsAre(AssignFormEmpty, g, DialogClosed)

NextBusy ==
    \/ HandleCreateGuideInvalid
    \/ \E ok \in BOOLEAN : HandleCreateGuide(ok)
    \/ \E c \in inflight : CreateGuideReturned(c)
    \/ \E table \in Tables : PushDeliver(table)
    \/ \E c \in inflight : FetchGuidesDone(c, FALSE)
    \/ \E method \in Methods : HandleTabChange(method)
    \/ ToggleAuthMode
    \/ HandleSubmitInvalid
    \/ HandleSignIn
    \/ \E c \in inflight, outcome \in SignInOutcomes : SignInReturned(c, outcome)
    \/ HandleSignUp
    \/ \E c \in inflight, outcome \in SignUpOutcomes : SignUpReturned(c, outcome)
    \/ \E c \in inflight, failed \in BOOLEAN : ProfileUpsertReturned(c, failed)

SpecBusy == InitBusy /\ [][NextBusy]_vars

\* the dashboard from its construction, with the handlers of the guide
\* requests list, which write to the store once the list is loaded
NextGate ==
    \/ \E v \in AdminIdInputs : SetAdminId(v)
    \/ \E v \in PasswordInputs : SetPassword(v)
    \/ HandleLogin
    \/ TimerFire
    \/ \E table \in Tables : PushDeliver(table)
    \/ \E c \in inflight : FetchTouristsProfiles(c, FALSE)
    \/ \E c \in inflight : FetchTouristsAssignments(c, FALSE)
    \/ \E c \in inflight : FetchAssignmentsDone(c, FALSE)
    \/ \E c \in inflight : FetchGuidesDone(c, FALSE)
    \/ \E c \in inflight : FetchGuideRequestsDone(c, FALSE)
    \/ \E c \in inflight : FetchDriversDone(c, FALSE)
    \/ \E r \in PendingRequestIds, g \in AvailableGuideIds, ok \in BOOLEAN :
          ApproveRequest(r, g, ok)
    \/ \E r \in PendingRequestIds, ok \in BOOLEAN : RejectRequest(r, ok)
    \/ \E c \in inflight : RespondReturned(c)

SpecGate == Init /\ [][NextGate]_vars

\* the change feed of a loaded dashboard, the profiles table included
InitFeed == \E rows \in InitialStores : Loaded(rows)

NextFeed ==
    \/ \E new \in PayloadTypes, old \in PayloadTypes : RemoteProfileChange(new, old)
    \/ \E e \in profileEvents : ProfilesPushDeliver(e)
    \/ \E table \in Tables : RemoteChange(table)
    \/ \E table \in Tables : PushDeliver(table)
    \/ \E c \in inflight : FetchTouristsProfiles(c, FALSE)
    \/ \E c \in inflight : FetchTouristsAssignments(c, FALSE)
    \/ \E c \in inflight : FetchAssignmentsDone(c, FALSE)
    \/ \E c \in inflight : FetchGuidesDone(c, FALSE)
    \/ \E c \in inflight : FetchGuideRequestsDone(c, FALSE)

SpecFeed == InitFeed /\ [][NextFeed]_vars

\* the guide cards at work on a loaded dashboard: the draft, Save and Cancel
\* with no card in edit mode, or one with its draft edited
InitEdit ==
    /\ LoadedData(<<>>)
    /\ FormFieldsAre(AssignFormEmpty, GuideFormEmpty, DialogClosed)
    /\ \/ editingGuide = "" /\ editGuideData = <<>>
       \/ \E i \in 1..Len(InitialGuides) :
             \E draft \in DraftFills(InitialGuides[i]) :
                editingGuide = draft.id /\ editGuideData = <<draft>>

NextEdit ==
    \/ \E i \in 1..Len(guides) : HandleEditGuide(i)
    \/ \E ok \in BOOLEAN : HandleSaveEdit(ok)
    \/ \E c \in inflight : SaveEditReturned(c)
    \/ HandleCancelEdit
    \/ \E table \in Tables : PushDeliver(table)
    \/ \E c \in inflight : FetchGuidesDone(c, FALSE)

SpecEdit == InitEdit /\ [][NextEdit]_vars

\* the dashboard from its construction to after its unmount
NextTeardown ==
    \/ \E v \in AdminIdInputs : SetAdminId(v)
    \/ \E v \in PasswordInputs : SetPassword(v)
    \/ HandleLogin
    \/ TimerFire
    \/ Unmount
    \/ \E table \in Tables : RemoteChange(table)
    \/ \E table \in Tables : PushDeliver(table)
    \/ \E c \in inflight : FetchTouristsProfiles(c, FALSE)
    \/ \E c \in inflight : FetchTouristsAssignments(c, FALSE)
    \/ \E c \in inflight : FetchAssignmentsDone(c, FALSE)
    \/ \E c \in inflight : FetchGuidesDone(c, FALSE)
    \/ \E c \in inflight : FetchGuideRequestsDone(c, FALSE)
    \/ \E c \in inflight : FetchDriversDone(c, FALSE)

SpecTeardown == Init /\ [][NextTeardown]_vars

\* the two handlers that write tour_assignments at work on a loaded
\* dashboard whose store holds at most one current row per tourist, the
\* assignment form and the dialog filled in any of the ways they allow
InitAssign ==
    /\ \E rows \in StoresWithOneCurrentRow : LoadedData(rows)
    /\ \E a \in AssignFormFills, d \in DialogFills :
          FormsAre(a, GuideFormEmpty, d)

NextAssign ==
    \/ HandleAssignGuideInvalid
    \/ \E ok \in BOOLEAN : HandleAssignGuide(ok)
    \/ \E c \in inflight : AssignInsertReturned(c)
    \/ \E c \in inflight, threw \in BOOLEAN : AssignNotifyReturned(c, threw)
    \/ HandleReassignGuideInvalid
    \/ \E ok \in BOOLEAN : HandleReassignGuideUpdate(ok)
    \/ \E ok \in BOOLEAN : HandleReassignGuideInsert(ok)
    \/ \E c \in inflight : ReassignUpdateReturned(c)
    \/ \E c \in inflight : ReassignInsertReturned(c)
    \/ \E c \in inflight : FetchAssignmentsDone(c, FALSE)
    \/ \E c \in inflight : FetchGuideRequestsDone(c, FALSE)

SpecAssign == InitAssign /\ [][NextAssign]_vars

\* the same two handlers with the change events their writes publish
\* delivered to the channel, whose callback refetches the assignments
NextAppend ==
    \/ \E ok \in BOOLEAN : HandleAssignGuide(ok)
    \/ \E c \in inflight : AssignInsertReturned(c)
    \/ \E c \in inflight, threw \in BOOLEAN : AssignNotifyReturned(c, threw)
    \/ \E ok \in BOOLEAN : HandleReassignGuideUpdate(ok)
    \/ \E ok \in BOOLEAN : HandleReassignGuideInsert(ok)
    \/ \E c \in inflight : ReassignUpdateReturned(c)
    \/ \E c \in inflight : ReassignInsertReturned(c)
    \/ \E table \in Tables : PushDeliver(table)
    \/ \E c \in inflight : FetchTouristsProfiles(c, FALSE)
    \/ \E c \in inflight : FetchTouristsAssignments(c, FALSE)
    \/ \E c \in inflight : FetchAssignmentsDone(c, FALSE)
    \/ \E c \in inflight : FetchGuideRequestsDone(c, FALSE)

SpecAppend == InitAssign /\ [][NextAppend]_vars

\* the guide requests list at work on a loaded dashboard: the approval
\* picker, the Reject button and the fetches handleRequestResponse starts
InitRespond ==
    /\ LoadedWith(<<>>, AnsweredRequests)
    /\ FormsAre(AssignFormEmpty, GuideFormEmpty, DialogClosed)

NextRespond ==
    \/ \E r \in PendingRequestIds, g \in AvailableGuideIds, ok \in BOOLEAN :
          ApproveRequest(r, g, ok)
    \/ \E r \in PendingRequestIds, ok \in BOOLEAN : RejectRequest(r, ok)
    \/ \E c \in inflight : RespondReturned(c)
    \/ \E table \in Tables : PushDeliver(table)
    \/ \E c \in inflight : FetchTouristsProfiles(c, FALSE)
    \/ \E c \in inflight : FetchTouristsAssignments(c, FALSE)
    \/ \E c \in inflight : FetchGuideRequestsDone(c, FALSE)
    \/ \E c \in inflight : FetchGuidesDone(c, FALSE)

SpecRespond == InitRespond /\ [][NextRespond]_vars

\* the assignments list edited in place on a loaded dashboard, and the
\* refetches the change events of the store start
InitLocal == \E rows \in InitialStores : Loaded(rows)

NextLocal ==
    \/ \E id \in LocalAssignmentIds : RemoveAssignment(id)
    \/ \E id \in LocalAssignmentIds : ActivateAssignment(id)
    \/ \E table \in Tables : RemoteChange(table)
    \/ \E table \in Tables : PushDeliver(table)
    \/ \E c \in inflight, err \in BOOLEAN : FetchTouristsProfiles(c, err)
    \/ \E c \in inflight, err \in BOOLEAN : FetchTouristsAssignments(c, err)
    \/ \E c \in inflight, err \in BOOLEAN : FetchAssignmentsDone(c, err)
    \/ \E c \in inflight, err \in BOOLEAN : FetchGuidesDone(c, err)
    \/ \E c \in inflight, err \in BOOLEAN : FetchGuideRequestsDone(c, err)

SpecLocal == InitLocal /\ [][NextLocal]_vars

(* ------------------- claims on the fetchers (Spec) --------------------- *)

\* the name the store holds for a guide id, with the fetcher's fallback
StoreGuideName(gid) ==
    LET hit == {k \in 1..Len(dbGuides) : dbGuides[k].id = gid /\ dbGuides[k].name # ""}
    IN IF hit = {} THEN "Unknown Guide" ELSE dbGuides[CHOOSE k \in hit : TRUE].name

\* the pending or active rows the store holds for a tourist
CurrentRowsOf(tid) ==
    {k \in 1..Len(dbAssignments) :
        /\ dbAssignments[k].tourist_id = tid
        /\ dbAssignments[k].status \in {"pending", "active"}}

\* the position of the last row of a tourist in a query result, 0 if none
LastRowOf(rows, tid) ==
    LET hit == {k \in 1..Len(rows) : rows[k].tourist_id = tid}
    IN IF hit = {} THEN 0 ELSE CHOOSE k \in hit : \A m \in hit : m <= k

C2_ActiveIffNoCurrentRow ==
    [][\A c \in inflight : FetchTouristsAssignments(c, FALSE) =>
         /\ Len(tourists') = Len(Profiles)
         /\ \A i \in 1..Len(tourists') :
               /\ tourists'[i].id = Profiles[i].id
               /\ tourists'[i].status = "active" <=> CurrentRowsOf(tourists'[i].id) = {}
               /\ CurrentRowsOf(tourists'[i].id) = {} => tourists'[i].assignedGuide = ""]_vars

\* one tourist is held 'active' and another is not
C2_Witness ==
    \E i, j \in 1..Len(tourists) :
        /\ tourists[i].status = "active" /\ tourists[i].assignedGuide = ""
        /\ CurrentRowsOf(tourists[i].id) = {}
        /\ tourists[j].status = "pending"
        /\ CurrentRowsOf(tourists[j].id) # {}

\* a read error of fetcher `c`: the toast and the collection left as it was
ReadErrorReported(c) ==
    /\ FetchTouristsProfiles(c, TRUE) =>
          /\ toast' = ErrorToast("Failed to load tourists. Please try again.")
          /\ tourists' = tourists
    /\ FetchAssignmentsDone(c, TRUE) =>
          /\ toast' = ErrorToast("Failed to fetch assignments")
          /\ assignments' = assignments
    /\ FetchGuidesDone(c, TRUE) =>
          /\ toast' = ErrorToast("Failed to fetch guides")
          /\ guides' = guides
    /\ FetchGuideRequestsDone(c, TRUE) =>
          /\ toast' = ErrorToast("Failed to fetch guide requests")
          /\ guideRequests' = guideRequests
    /\ FetchDriversDone(c, TRUE) =>
          /\ toast' = ErrorToast("Failed to fetch drivers")
          /\ drivers' = drivers

RowsOf(tid) == {k \in 1..Len(dbAssignments) : dbAssignments[k].tourist_id = tid}

C4_InsertSevenDaySpan ==
    [][/\ HandleReassignGuideInsert(TRUE) =>
            LET n == Len(dbAssignments)
                day == (now \div DayMs) + 1
            IN /\ Len(dbAssignments') = n + 1
               /\ \A k \in 1..n : dbAssignments'[k] = dbAssignments[k]
               /\ dbAssignments'[n + 1].tourist_id = reassignmentTouristId
               /\ dbAssignments'[n + 1].guide_id = reassignmentNewGuideId
               /\ dbAssignments'[n + 1].status = "active"
               /\ dbAssignments'[n + 1].start_date = DayNames[day]
               /\ dbAssignments'[n + 1].end_date = DayNames[day + 7]
       /\ \A c \in inflight : (ReassignInsertReturned(c) /\ c.ok) =>
            /\ Len(assignments') = Len(assignments) + 1
            /\ \A i \in 1..Len(assignments) : assignments'[i] = assignments[i]
            /\ assignments'[Len(assignments')].id = c.data[1].id]_vars

\* C5 as stated: two insert calls of handleReassignGuide for one tourist
\* that are awaited at the same time (each was issued before the other
\* returned) leave exactly one row of that tourist in the store.
C5_OverlappingCallsOneRow ==
    \A c1, c2 \in inflight :
        (/\ c1 # c2
         /\ c1.kind = "reassign.insert" /\ c2.kind = "reassign.insert"
         /\ c1.ok /\ c2.ok
         /\ c1.reassignmentTouristId = c2.reassignmentTouristId)
        => Cardinality(RowsOf(c1.reassignmentTouristId)) = 1

\* nothing is awaited and no change event is undelivered
Settled == inflight = {} /\ pushEvents = {}

\* the rows the insert branch of handleReassignGuide has written for a tourist
ReassignRowsOf(tid) == {k \in RowsOf(tid) : dbAssignments[k].tour_name = DefaultTourName}

\* C6 as stated (SpecReassignFeed): once the insert branch of handleReassignGuide has written a
\* row for a tourist and every fetch and change event has been processed,
\* the store holds one such row and the tourists collection holds the
\* tourist as 'assigned' with the name of that row's guide.
C6_SettledTouristShowsGuide ==
    Settled =>
        \A i \in 1..Len(tourists) : \A k \in ReassignRowsOf(tourists[i].id) :
            /\ Cardinality(ReassignRowsOf(tourists[i].id)) = 1
            /\ tourists[i].status = "assigned"
            /\ tourists[i].assignedGuide = StoreGuideName(dbAssignments[k].guide_id)

\* C7: a store error of the update or of the insert of handleReassignGuide
\* ends in an error toast; neither the click nor the catch changes the local
\* assignments list, the dialog-open flag or the reassignment selection,
\* and the failed write leaves the store as it was.
C7_StoreErrorKeepsDialog ==
    [][/\ (HandleReassignGuideUpdate(FALSE) \/ HandleReassignGuideInsert(FALSE)) =>
            UNCHANGED <<assignments, reassignVars, storeVars, toast>>
       /\ \A c \in inflight :
            ((ReassignUpdateReturned(c) \/ ReassignInsertReturned(c)) /\ ~c.ok) =>
                /\ toast' = ErrorToast(StoreErrorMessage)
                /\ toast'.variant = "destructive"
                /\ UNCHANGED <<assignments, reassignVars, storeVars>>]_vars

\* the catch has run: the error is shown, the dialog is open with its
\* selection, and the list holds what the store holds
C7_Witness ==
    /\ toast = ErrorToast(StoreErrorMessage)
    /\ reassignmentDialogOpen
    /\ reassignmentTouristId = "t1" /\ reassignmentNewGuideId = "g2"
    /\ assignments = FormatAssignments(SelectAssignments)
    /\ writes = 1 /\ inflight = {}

(* ------------- claims on the submit handlers (SpecForms) --------------- *)

\* a step that shows a toast and does nothing else: no store call, no call
\* of the notification function, no collection and no form field changed
OnlyToastChanges ==
    UNCHANGED <<profileEvents, editVars, touristVars, storeVars, loginVars, collVars, assignments, assignFormVars,
                guideFormVars, reassignVars, asyncVars, now, writes>>

\* C9: with a required field of its form empty, handleAssignGuide,
\* handleCreateGuide and handleReassignGuide do not issue their store call;
\* what the click does instead is show the validation error and nothing
\* else, and that is what a click then can do.
C9_ValidationAborts ==
    [][/\ ("" \in {selectedTourist, selectedGuide, tourName, startDate, endDate}) =>
            /\ ~(\E ok \in BOOLEAN : HandleAssignGuide(ok))
            /\ ENABLED HandleAssignGuideInvalid
       /\ HandleAssignGuideInvalid =>
            /\ "" \in {selectedTourist, selectedGuide, tourName, startDate, endDate}
            /\ toast' = ErrorToast("Please fill in all fields")
            /\ OnlyToastChanges
       /\ ("" \in {newGuideName, newGuideEmail, newGuidePhone, newGuideId,
                   newGuidePassword}) =>
            /\ ~(\E ok \in BOOLEAN : HandleCreateGuide(ok))
            /\ ~isCreatingGuide => ENABLED HandleCreateGuideInvalid
       /\ HandleCreateGuideInvalid =>
            /\ "" \in {newGuideName, newGuideEmail, newGuidePhone, newGuideId,
                       newGuidePassword}
            /\ toast' = ErrorToast("Please fill in all required fields")
            /\ OnlyToastChanges
       /\ ("" \in {reassignmentNewGuideId, reassignmentTouristId}) =>
            /\ ~(\E ok \in BOOLEAN : HandleReassignGuideUpdate(ok))
            /\ ~(\E ok \in BOOLEAN : HandleReassignGuideInsert(ok))
            /\ reassignmentDialogOpen => ENABLED HandleReassignGuideInvalid
       /\ HandleReassignGuideInvalid =>
            /\ "" \in {reassignmentNewGuideId, reassignmentTouristId}
            /\ toast' = ErrorToast("Please select a new guide")
            /\ OnlyToastChanges]_vars

\* the guide form was submitted with its password alone missing: the error
\* is shown, the form is as it was and no guide was stored
C9_Witness ==
    /\ toast = ErrorToast("Please fill in all required fields")
    /\ newGuidePassword = ""
    /\ "" \notin {newGuideName, newGuideEmail, newGuidePhone, newGuideId}
    /\ ~isCreatingGuide
    /\ dbGuides = InitialGuides /\ guides = SelectGuides
    /\ inflight = {} /\ writes = 0

\* C10: the insert of handleAssignGuide stores one active row, and once the
\* notification call has settled, resolved or thrown alike, the entry of
\* that row is appended to the local list, the five form fields are empty
\* and the toast shown is the success toast; the store is not touched again.
C10_NotificationOutcomeIgnored ==
    [][/\ HandleAssignGuide(TRUE) =>
            /\ Len(dbAssignments') = Len(dbAssignments) + 1
            /\ \A k \in 1..Len(dbAssignments) : dbAssignments'[k] = dbAssignments[k]
            /\ dbAssignments'[Len(dbAssignments')].status = "active"
            /\ dbAssignments'[Len(dbAssignments')].tourist_id = selectedTourist
            /\ dbAssignments'[Len(dbAssignments')].guide_id = selectedGuide
       /\ \A c \in inflight, threw \in BOOLEAN : AssignNotifyReturned(c, threw) =>
            /\ Len(assignments') = Len(assignments) + 1
            /\ \A i \in 1..Len(assignments) : assignments'[i] = assignments[i]
            /\ assignments'[Len(assignments')].id = c.data[1].id
            /\ assignments'[Len(assignments')].touristId = c.data[1].tourist_id
            /\ assignments'[Len(assignments')].guideId = c.data[1].guide_id
            /\ assignments'[Len(assignments')].status = "active"
            /\ selectedTourist' = "" /\ selectedGuide' = "" /\ tourName' = ""
            /\ startDate' = "" /\ endDate' = ""
            /\ toast' = InfoToast("Assignment Created",
                                  "Tour guide assigned successfully and notifications sent!")
            /\ toast'.variant # "destructive"
            /\ UNCHANGED storeVars
            /\ Cardinality({k \in 1..Len(dbAssignments) :
                              /\ dbAssignments[k].id = c.data[1].id
                              /\ dbAssignments[k].status = "active"}) = 1]_vars

\* handleAssignGuide has run to its end: the row is stored, its entry is in
\* the local list and the form is empty
C10_Witness ==
    /\ toast = InfoToast("Assignment Created",
                         "Tour guide assigned successfully and notifications sent!")
    /\ selectedTourist = "" /\ selectedGuide = "" /\ tourName = ""
    /\ startDate = "" /\ endDate = ""
    /\ \E k \in 1..Len(dbAssignments), i \in 1..Len(assignments) :
          /\ dbAssignments[k].tour_name \in TourNames
          /\ dbAssignments[k].status = "active"
          /\ dbAssignments[k].tourist_id = "t1"
          /\ assignments[i].id = dbAssignments[k].id
          /\ assignments[i].touristId = "t1"

(* ------------- claims on the guide requests (SpecRespond) -------------- *)

\* the stored request with id `requestId`
StoredRequest(rows, requestId) ==
    rows[CHOOSE k \in 1..Len(rows) : rows[k].id = requestId]

\* C11 as stated: once the Reject button of a request the list shows as
\* pending has issued its update and the store has accepted it, the stored
\* request has status rejected and no assigned_guide_id, whatever
\* assigned_guide_id it held before.
C11_RejectedHasNoGuide ==
    [][\A r \in PendingRequestIds : RejectRequest(r, TRUE) =>
          /\ StoredRequest(dbRequests', r).status = "rejected"
          /\ StoredRequest(dbRequests', r).assigned_guide_id = ""]_vars

\* the fields of a stored request handleRequestResponse does not write
RequestFrame(row) ==
    [id |-> row.id, tourist_id |-> row.tourist_id,
     request_message |-> row.request_message]

\* what a step of handleRequestResponse on request `r` leaves alone
RespondFrame(r, approvedWith) ==
    /\ UNCHANGED <<dbAssignments, dbGuides>>
    /\ Len(dbRequests') = Len(dbRequests)
    /\ \A k \in 1..Len(dbRequests) :
          IF dbRequests[k].id = r
          THEN /\ RequestFrame(dbRequests'[k]) = RequestFrame(dbRequests[k])
               /\ dbRequests'[k].assigned_guide_id \in
                     {dbRequests[k].assigned_guide_id, approvedWith}
          ELSE dbRequests'[k] = dbRequests[k]

\* C12: handleRequestResponse, approving or rejecting, writes only the
\* status, the admin response and (approving with a guide) the assigned
\* guide of the request it is called for; no other request, no
\* tour_assignments row and no guides row is created or changed, by the
\* update or by what follows it.
C12_RespondChangesRequestOnly ==
    [][/\ \A r \in PendingRequestIds, g \in AvailableGuideIds, ok \in BOOLEAN :
            ApproveRequest(r, g, ok) => RespondFrame(r, g)
       /\ \A r \in PendingRequestIds, ok \in BOOLEAN :
            RejectRequest(r, ok) =>
               RespondFrame(r, StoredRequest(dbRequests, r).assigned_guide_id)
       /\ \A c \in inflight : RespondReturned(c) => UNCHANGED storeVars]_vars

\* a request was approved with a guide: its row has the status, the response
\* and the guide, the other request is what it was, no assignment exists and
\* both guides are as they were
C12_Witness ==
    /\ toast = InfoToast("Success", "Request approved successfully!")
    /\ dbRequests = RespondUpdate(AnsweredRequests, "r1", "approved", "g1",
                                  "Guide assigned successfully!")
    /\ StoredRequest(dbRequests, "r1").assigned_guide_id = "g1"
    /\ StoredRequest(dbRequests, "r2") = AnsweredRequests[2]
    /\ dbAssignments = <<>> /\ dbGuides = InitialGuides

(* --------- claims on the local-only list edits (SpecLocal) ------------- *)

\* the local list holds, row for row, what the query of fetchAssignments
\* returns for the store as it is
ListEqualsStore(list) ==
    /\ Len(list) = Len(dbAssignments)
    /\ \A i \in 1..Len(list) :
          LET row == dbAssignments[Len(dbAssignments) + 1 - i]
          IN /\ list[i].id = row.id
             /\ list[i].touristId = row.tourist_id
             /\ list[i].guideId = row.guide_id
             /\ list[i].tourName = row.tour_name
             /\ list[i].startDate = row.start_date
             /\ list[i].endDate = row.end_date
             /\ list[i].status = row.status

\* C13: a fetchAssignments that returns data replaces the local list by
\* the rows it read, whatever removeAssignment and updateAssignmentStatus
\* did to the list before: with the store unchanged since the read, the
\* list equals the store's rows again.
C13_RefetchRestoresList ==
    [][\A c \in inflight : FetchAssignmentsDone(c, FALSE) =>
          (c.data = SelectAssignments => ListEqualsStore(assignments'))]_vars

\* an entry was removed and another activated, and a refetch has since put
\* the list back to the store's rows: the toast is still that of the edit
C13_Witness ==
    /\ toast.title \in {"Assignment Removed", "Status Updated"}
    /\ Len(dbAssignments) = 2
    /\ ListEqualsStore(assignments)
    /\ \E i \in 1..Len(assignments) : assignments[i].status = "pending"

\* C14: removeAssignment removes the entries with the given id from the
\* local list, updateAssignmentStatus sets the status of the entries with
\* the given id, and neither does anything else but show its toast: no
\* call is issued, the store and the other collections are as they were.
C14_LocalEditsOnly ==
    [][/\ \A id \in LocalAssignmentIds : RemoveAssignment(id) =>
            /\ \A i \in 1..Len(assignments') : assignments'[i].id # id
            /\ Len(assignments') =
                  Cardinality({i \in 1..Len(assignments) : assignments[i].id # id})
            /\ \A i \in 1..Len(assignments) : assignments[i].id # id =>
                  \E j \in 1..Len(assignments') : assignments'[j] = assignments[i]
            /\ UNCHANGED <<storeVars, collVars, asyncVars, writes>>
       /\ \A id \in LocalAssignmentIds : ActivateAssignment(id) =>
            /\ Len(assignments') = Len(assignments)
            /\ \A i \in 1..Len(assignments) :
                  assignments'[i] =
                     IF assignments[i].id = id
                     THEN [assignments[i] EXCEPT !.status = "active"]
                     ELSE assignments[i]
            /\ UNCHANGED <<storeVars, collVars, asyncVars, writes>>]_vars

\* one of the two entries of a tourist was removed from the list: the
\* other is still listed and the store holds both rows
C14_Witness ==
    /\ toast.title = "Assignment Removed"
    /\ Len(dbAssignments) = 2 /\ Len(assignments) = 1
    /\ assignments[1].touristId = dbAssignments[1].tourist_id
    /\ dbAssignments[1].tourist_id = dbAssignments[2].tourist_id
    /\ inflight = {} /\ pushEvents = {}

(* ---------- claims on the re-sync (SpecReassignFeed, SpecAssign) -------- *)

\* each local collection is the view its fetcher derives from the store as
\* it is (for tourists: under one of the orders the store may return)
Consistent ==
    /\ tourists \in {FormatTourists(Profiles, q) : q \in SelectCurrentAssignments}
    /\ guides = SelectGuides
    /\ ListEqualsStore(assignments)
    /\ guideRequests = SelectGuideRequests

\* C15 as stated (SpecReassignFeed): once every fetch response and every
\* change event has been delivered, none with an error, the local
\* collections are the views of the store's current rows, whatever the order
\* the responses arrived in.  (From such a state nothing is refetched unless
\* the store changes again, so a collection that differs then stays so.)
C15_SettledIsConsistent == Settled => Consistent

\* C16 as stated (SpecAssign): no tourist has two rows with status pending
\* or active in the store.
C16_OneCurrentRowPerTourist ==
    \A t \in TouristIds : Cardinality(CurrentRowsOf(t)) <= 1

(* ------------------- claims on teardown (SpecTeardown) ------------------ *)

\* C17 as stated (SpecTeardown): once the component is unmounted the channel
\* is closed, and no change event starts a fetch.
C17_NoSubscriptionAfterTeardown ==
    [][~mounted => (~subscribed /\ ~(\E table \in Tables : PushDeliver(table)))]_vars

(* --------------- claims on the tourist login (SpecTourist) -------------- *)

\* the step sends profiles.upsert one row, for the new user and typed tourist
UpsertsTouristProfile ==
    /\ Len(profileUpserts') = Len(profileUpserts) + 1
    /\ profileUpserts'[Len(profileUpserts')].id = NewUserId
    /\ profileUpserts'[Len(profileUpserts')].user_type = "tourist"

\* C18 as stated (SpecTourist): a sign-up the auth provider returns without
\* an error, with or without a session, sends profiles.upsert a row for the
\* new user's id with user_type 'tourist'.
C18_AcceptedSignUpUpserts ==
    [][\A c \in inflight :
          (SignUpReturned(c, "session") \/ SignUpReturned(c, "confirm"))
              => UpsertsTouristProfile]_vars

\* C18 as amended: a sign-up returned without an error and WITH a session
\* sends profiles.upsert a row for the new user's id with user_type
\* 'tourist'; one accepted without a session (e-mail confirmation pending)
\* sends no row.
C18_SessionSignUpUpserts ==
    [][\A c \in inflight :
          /\ SignUpReturned(c, "session") => UpsertsTouristProfile
          /\ SignUpReturned(c, "confirm") => UNCHANGED profileUpserts]_vars

\* a sign-up came back with a session and its row was sent
C18_Witness ==
    /\ profileUpserts # <<>>
    /\ authRequests[Len(authRequests)].op = "signUp"
    /\ [kind |-> "profiles.upsert"] \in inflight

\* the kind of credential a request to the auth provider carries
CredentialKind(r) ==
    IF "phone" \in DOMAIN r THEN "phone"
    ELSE IF "email" \in DOMAIN r THEN "email" ELSE "none"

\* C19 as stated (SpecTourist): the request a sign-in or a sign-up sends
\* carries the identifier as a credential of the kind of the selected
\* method: phone in phone mode, email in email mode.
C19_CredentialMatchesMethod ==
    [][(HandleSignIn \/ HandleSignUp)
          => CredentialKind(authRequests'[Len(authRequests')]) = loginState.method]_vars

(* ------------- claims on guide eligibility (SpecEligible) --------------- *)

\* the local guides collection holds the guide with status 'available'
LocallyAvailable(gid) ==
    \E i \in 1..Len(guides) : guides[i].id = gid /\ guides[i].status = "available"

\* C20 as stated (SpecEligible): when handleAssignGuide, handleReassignGuide
\* or an approval issues its store write, the guide the write names is
\* 'available' in the local guides collection at that moment.
C20_WrittenGuideIsAvailable ==
    [][/\ (\E ok \in BOOLEAN : HandleAssignGuide(ok)) => LocallyAvailable(selectedGuide)
       /\ (\E ok \in BOOLEAN : HandleReassignGuideUpdate(ok) \/ HandleReassignGuideInsert(ok))
              => LocallyAvailable(reassignmentNewGuideId)
       /\ \A r \in PendingRequestIds, g \in StoredGuideIds :
              (\E ok \in BOOLEAN : ApproveRequest(r, g, ok)) => LocallyAvailable(g)]_vars

(* ----------------- claims on the guide edit (SpecEdit) ------------------ *)

\* the step keeps the guides table's rows in place with their identity columns
IdentityKept ==
    /\ Len(dbGuides') = Len(dbGuides)
    /\ \A i \in 1..Len(dbGuides) :
          /\ dbGuides'[i].id = dbGuides[i].id
          /\ dbGuides'[i].guide_id = dbGuides[i].guide_id
          /\ dbGuides'[i].password = dbGuides[i].password
          /\ dbGuides'[i].rating = dbGuides[i].rating

\* the five columns of `row` are the draft's
HoldsDraft(row, draft) ==
    /\ row.name = draft.name /\ row.email = draft.email /\ row.phone = draft.phone
    /\ row.specializations = draft.specializations /\ row.status = draft.status

\* C21 (SpecEdit): through the guide edit path no guides row changes its id,
\* guide_id, password or rating; an accepted Save gives the row whose id is
\* the draft's id the draft's name, email, phone, specializations and status
\* and changes no other row and no other table; Edit, Cancel and the
\* continuation of Save issue no store call, and Cancel clears the draft.
C21_EditKeepsIdentity ==
    [][/\ (\E ok \in BOOLEAN : HandleSaveEdit(ok))
            => /\ IdentityKept
               /\ UNCHANGED <<dbAssignments, dbRequests>>
               /\ \A i \in 1..Len(dbGuides) :
                     dbGuides[i].id # editGuideData[1].id => dbGuides'[i] = dbGuides[i]
       /\ HandleSaveEdit(TRUE)
            => \A i \in 1..Len(dbGuides) :
                  dbGuides[i].id = editGuideData[1].id
                      => HoldsDraft(dbGuides'[i], editGuideData[1])
       /\ ((\E i \in 1..Len(guides) : HandleEditGuide(i))
              \/ (\E c \in inflight : SaveEditReturned(c)))
            => UNCHANGED <<storeVars, writes, pushEvents>>
       /\ HandleCancelEdit
            => /\ UNCHANGED <<storeVars, writes, asyncVars>>
               /\ editingGuide' = "" /\ editGuideData' = <<>>]_vars

\* a Save has rewritten a guide's row and returned
C21_Witness ==
    /\ \E i \in 1..Len(dbGuides) :
          /\ ~HoldsDraft(dbGuides[i], InitialGuides[i])
          /\ dbGuides[i].guide_id = InitialGuides[i].guide_id
    /\ editingGuide = "" /\ writes > 0
    /\ \A c \in inflight : c.kind # "saveEdit.update"

(* --------------- claims on guide creation (SpecCreate) ------------------ *)

\* the positions that bound the pieces of `text`: before it, its commas, after it
PieceBounds(text) == {0, Len(text) + 1} \cup {i \in 1..Len(text) : text[i] = ","}

\* the k-th of these positions, counted from the left
NthBound(text, k) ==
    CHOOSE b \in PieceBounds(text) :
        Cardinality({c \in PieceBounds(text) : c < b}) = k - 1

\* the k-th comma-separated piece of `text`
PieceOf(text, k) == SubSeq(text, NthBound(text, k) + 1, NthBound(text, k + 1) - 1)

\* `t` is `piece` without the blanks around it
IsTrimOf(t, piece) ==
    /\ t = <<>> \/ (t[1] # " " /\ t[Len(t)] # " ")
    /\ \E i \in 0..Len(piece) :
          /\ i + Len(t) <= Len(piece)
          /\ SubSeq(piece, i + 1, i + Len(t)) = t
          /\ \A k \in 1..Len(piece) : (k <= i \/ k > i + Len(t)) => piece[k] = " "

\* `result` is the trimmed non-empty pieces of `text`, in the order of `text`
IsPiecesOf(result, text) ==
    LET n == Cardinality(PieceBounds(text)) - 1
        kept == {k \in 1..n : \E j \in 1..Len(PieceOf(text, k)) : PieceOf(text, k)[j] # " "}
    IN /\ Len(result) = Cardinality(kept)
       /\ \A m \in 1..Len(result) :
             \E k \in kept :
                /\ Cardinality({h \in kept : h < k}) = m - 1
                /\ IsTrimOf(result[m], PieceOf(text, k))

\* C22 (SpecCreate): the row an accepted guide creation inserts holds rating 0
\* and, as specializations, the comma-separated pieces of the input, each
\* trimmed, the empty ones dropped, in order ("D, N T, " gives ["D", "N T"],
\* the empty input the empty list).
C22_SpecializationsParsed ==
    [][HandleCreateGuide(TRUE) =>
          LET row == dbGuides'[Len(dbGuides')]
          IN /\ Len(dbGuides') = Len(dbGuides) + 1
             /\ row.rating = 0
             /\ IsPiecesOf(row.specializations, newGuideSpecializations)
             /\ newGuideSpecializations = ExampleText
                   => row.specializations = << <<"D">>, <<"N", " ", "T">> >>
             /\ newGuideSpecializations = <<>> => row.specializations = <<>>]_vars

\* the example text was submitted and stored as its two pieces
C22_Witness ==
    /\ Len(dbGuides) = Len(InitialGuides) + 1
    /\ dbGuides[Len(dbGuides)].specializations = << <<"D">>, <<"N", " ", "T">> >>
    /\ dbGuides[Len(dbGuides)].rating = 0

(* ------------------ claims on the login gate (SpecGate) ----------------- *)

\* C23 (SpecGate): isLoggedIn becomes true only by handleLogin with adminId
\* 'admin' and password 'admin123'; a handleLogin with any other pair leaves
\* it false; and while it is false no fetch or write is awaited, none has
\* been issued, the channel is closed and the timer is not armed.
C23_GatedByCredentials ==
    [][/\ (~isLoggedIn /\ isLoggedIn')
            => (HandleLogin /\ adminId = "admin" /\ password = "admin123")
       /\ (HandleLogin /\ ~(adminId = "admin" /\ password = "admin123"))
            => (~isLoggedIn' /\ UNCHANGED <<storeVars, asyncVars, writes>>)
       /\ ~isLoggedIn
            => (/\ inflight = {} /\ pushEvents = {} /\ ~subscribed /\ ~timerPending
                /\ writes = 0)]_vars

\* the admin is in after a refused attempt, and a write has gone out
C23_Witness ==
    /\ isLoggedIn /\ writes > 0 /\ subscribed
    /\ adminId = "admin" /\ password = "admin123"

(* ------------------ claims on the change feed (SpecFeed) ---------------- *)

C25_SuccessClosesAndRefetches ==
    [][\A c \in inflight :
          (c.kind \in {"reassign.update", "reassign.insert"} /\ c.ok
             /\ (ReassignUpdateReturned(c) \/ ReassignInsertReturned(c)))
          => /\ ~reassignmentDialogOpen'
             /\ reassignmentTouristId' = "" /\ reassignmentNewGuideId' = ""
             /\ {FetchAssignmentsCall, FetchGuideRequestsCall} \subseteq inflight'
             /\ c \notin inflight'
             /\ assignments' =
                   IF c.kind = "reassign.update"
                   THEN PatchGuideId(assignments, c.id, c.reassignmentNewGuideId)
                   ELSE Append(assignments, ReassignEntry(c))]_vars

\* a reassignment has just succeeded while the list holds an entry that
\* handleReassignGuide made
C25_Witness ==
    /\ toast = InfoToast("Success", "Tour guide assigned successfully!")
    /\ ~reassignmentDialogOpen
    /\ {FetchAssignmentsCall, FetchGuideRequestsCall} \subseteq inflight
    /\ \E i \in 1..Len(assignments) :
          /\ assignments[i].tourName = DefaultTourName
          /\ assignments[i].id > 0

\* the places of the local list that hold an entry of the tourist
LocalEntriesOf(tid) == {i \in 1..Len(assignments) : assignments[i].touristId = tid}

FirstLocalEntryOf(tid) ==
    assignments[CHOOSE i \in LocalEntriesOf(tid) : \A j \in LocalEntriesOf(tid) : i <= j]

\* C26 (SpecReassign): a store call of handleReassignGuide is chosen by the
\* local assignments list alone. If the list holds an entry of the tourist,
\* whatever its status, the call is an update of guide_id on the row whose id
\* is that of the first such entry in list order, and no row is inserted; a
\* row is inserted only when the list holds no entry of the tourist.
C26_BranchFromLocalList ==
    [][writes' # writes =>
          LET tid == reassignmentTouristId
              gid == reassignmentNewGuideId
              issued == inflight' \ inflight
          IN IF LocalEntriesOf(tid) # {}
             THEN /\ \A c \in issued :
                        /\ c.kind = "reassign.update"
                        /\ c.id = FirstLocalEntryOf(tid).id
                  /\ Len(dbAssignments') = Len(dbAssignments)
                  /\ \A k \in 1..Len(dbAssignments) :
                        IF dbAssignments[k].id = FirstLocalEntryOf(tid).id
                        THEN dbAssignments'[k] \in
                                {dbAssignments[k],
                                 [dbAssignments[k] EXCEPT !.guide_id = gid]}
                        ELSE dbAssignments'[k] = dbAssignments[k]
             ELSE /\ \A c \in issued : c.kind = "reassign.insert"
                  /\ \/ dbAssignments' = dbAssignments
                     \/ /\ Len(dbAssignments') = Len(dbAssignments) + 1
                        /\ SubSeq(dbAssignments', 1, Len(dbAssignments)) = dbAssignments]_vars

\* the update of a row is awaited whose local entry is a completed one
C26_Witness ==
    \E c \in inflight :
        /\ c.kind = "reassign.update" /\ c.ok
        /\ \E i \in 1..Len(assignments) :
              /\ assignments[i].id = c.id
              /\ assignments[i].status = "completed"
              /\ \A j \in 1..(i - 1) : assignments[j].touristId # assignments[i].touristId

(* ------------------- claims on fetchTourists, continued ------------------ *)

\* C27 (SpecFeed): the tourists a successful fetchTourists derives do not
\* depend on the order the store returned the pending and active rows in:
\* the same rows in any other order give every tourist the same status and
\* the same assignedGuide.
C27_OrderOfRowsIrrelevant ==
    [][\A c \in inflight : FetchTouristsAssignments(c, FALSE) =>
         \A rows \in Orderings(c.data) :
            LET other == FormatTourists(c.profiles, rows)
            IN \A i \in 1..Len(tourists') :
                  /\ other[i].status = tourists'[i].status
                  /\ other[i].assignedGuide = tourists'[i].assignedGuide]_vars

(* ---------------- claims on the local assignments list ------------------ *)

\* C28 (SpecAppend): the local assignments list never holds two entries with
\* the same assignment id, however the appends of handleAssignGuide and
\* handleReassignGuide interleave with the responses of fetchAssignments.
C28_NoDuplicateIds ==
    \A i, j \in 1..Len(assignments) :
        assignments[i].id = assignments[j].id => i = j

(* ------------------ claims on the tourist form, continued --------------- *)

\* the answers of the auth provider that carried a user and a session
SessionsReturned == {i \in 1..Len(authResponses) : authResponses[i] = "session"}

\* C29 (SpecTourist): onLoginSuccess is called at most once per submit, and
\* only for an answer of the auth provider with no error, a user and a
\* session: never on a validation failure, an auth error or an answer without
\* a session; a sign-up answered without a session puts the form back in
\* sign-in mode.
C29_LoginSuccessOnlyWithSession ==
    [][/\ Len(loginSuccesses') <= Cardinality(SessionsReturned')
       /\ Len(authResponses') <= Len(authRequests')
       /\ Len(loginSuccesses') \in {Len(loginSuccesses), Len(loginSuccesses) + 1}
       /\ HandleSubmitInvalid => UNCHANGED <<loginSuccesses, authRequests, inflight>>
       /\ Len(authResponses') > Len(authResponses) =>
             LET answer == authResponses'[Len(authResponses')]
             IN /\ answer # "session" =>
                     /\ UNCHANGED loginSuccesses
                     /\ [kind |-> "profiles.upsert"] \notin inflight'
                /\ answer = "confirm" => ~loginState'.isSignUp]_vars

\* a sign-up was answered without a session, and the sign-in made from the
\* form it switched to was answered with one
C29_Witness ==
    /\ authResponses = <<"confirm", "session">>
    /\ Len(loginSuccesses) = 1
    /\ ~loginState.isSignUp

(* ------------------------ claims on the busy flags ---------------------- *)

\* the backend calls a busy flag stands for
CreateGuideCalls == {c \in inflight : c.kind = "createGuide.insert"}
LoginCalls == {c \in inflight : c.kind \in {"auth.signIn", "auth.signUp", "profiles.upsert"}}

\* C30 (SpecBusy): isCreatingGuide is true exactly while the insert of
\* handleCreateGuide is awaited, and loginState.loading exactly while a call
\* of handleSignIn or handleSignUp is: a submit that fails validation leaves
\* the flag false, and every return of the call (success, returned error or
\* exception) leaves it false again.
C30_BusyOnlyWhileAwaiting ==
    [][/\ isCreatingGuide' <=> CreateGuideCalls' # {}
       /\ loginState'.loading <=> LoginCalls' # {}
       /\ HandleCreateGuideInvalid => ~isCreatingGuide'
       /\ HandleSubmitInvalid => ~loginState'.loading
       /\ (CreateGuideCalls # {} /\ CreateGuideCalls' = {}) => ~isCreatingGuide'
       /\ (LoginCalls # {} /\ LoginCalls' = {}) => ~loginState'.loading]_vars

\* a guide creation the store refused has returned, or a sign-up answered
\* with an error has, after the flag was up
C30_Witness ==
    \/ /\ ~isCreatingGuide /\ writes > 0 /\ CreateGuideCalls = {}
       /\ toast = ErrorToast(StoreErrorMessage)
    \/ /\ ~loginState.loading /\ LoginCalls = {}
       /\ authResponses # <<>> /\ authResponses[Len(authResponses)] = "error"

====
